---- MODULE Spec2Model ----
(***************************************************************************)
(* CulturalTruth MCP: the resilience wrappers (circuit breaker, bounded    *)
(* cache, rate limiter), the bias detector and scorer, the reporting and   *)
(* the analysis client of src/src/mcp/server.ts, modelled as               *)
(* state machines.  Each component has its own specification over the      *)
(* shared variable list:                                                   *)
(*   SpecCB      CircuitBreaker with overlapping execute() calls           *)
(*   SpecCache   LRUCache with set / get / clear and a clock               *)
(*   SpecClient  EnhancedQlooClient.analyzeContent, batchCulturalAudit and *)
(*               the configure_environment handler                         *)
(*   SpecPair    two overlapping or successive analyzeContent calls        *)
(*   SpecLong    two successive analyzeContent calls on a content with     *)
(*               more candidates than are looked up                        *)
(*   SpecRL      SimpleRateLimiter with suspended callers                  *)
(*   SpecAudit   addAuditTrail under any MAX_AUDIT_TRAILS                  *)
(*   SpecDetector  EnhancedBiasDetector on tokenized texts                 *)
(*   SpecScore   calculateComplianceScore on growing lists of findings     *)
(*   SpecReport  generateComplianceReport over an ageing audit log         *)
(*   SpecCalls   setConfig / detectBiasPatterns call sequences on both     *)
(*               copies of EnhancedBiasDetector                            *)
(* Time is the value of Date.now() in model ticks.                         *)
(***************************************************************************)
EXTENDS Integers, Sequences, FiniteSets, TLC

VARIABLES
    now,          \* Date.now()
    \* ---- CircuitBreaker (src/src/utils/circuit-breaker.ts) ----
    cb,           \* the breaker's fields
    cbCalls,      \* cbCalls[c]: position / last outcome of execute() call slot c
    consecFail,   \* history: operations failed since the last successful one
    hoSucc,       \* history: successes completed in half-open since it was entered
    reopenedAt,   \* history: {time of the last failure that hit a half-open breaker}
    \* ---- LRUCache (src/src/utils/lru-cache.ts) ----
    cache,        \* the Map, as the sequence of its entries in iteration order
    cacheMax,     \* maxSize
    cacheOps,     \* history: number of set/get/clear calls made (logical clock)
    stamps,       \* history: stamps[k] = [ins, use] logical times of key k
    lastEvicted,  \* history: keys evicted by the last set() call, in order
    lastOp,       \* history: the last cache call, its result and, for a get,
                  \* the stamps of its key before the call
    insRun,       \* history: [ok, keys]: the distinct keys inserted by set()
                  \* since construction/clear; ok is FALSE once a get or a
                  \* repeated key intervened
    \* ---- client and handlers (src/src/mcp/server.ts) ----
    detectorConfig, \* EnhancedBiasDetector.config (static)
    serverConfig,   \* serverConfig
    qlooClient,     \* qlooClient, as an index into clients
    clients,        \* every EnhancedQlooClient constructed so far
    analyses,       \* analyses[a]: the analyzeContent call with session id a
    batch,          \* the batchCulturalAudit call
    faults,         \* history: exceptions raised in try blocks so far
    \* ---- SimpleRateLimiter on its own (src/src/index.ts) ----
    limiter,        \* the limiter's fields
    rlCallers,      \* rlCallers[c]: wake-up time of the timer caller c is
                    \* suspended on in removeTokens, 0 when c is not suspended
    rlCalls,        \* history: removeTokens calls made so far
    rlWinStart,     \* history: start of the current refill interval
    rlWinCount,     \* history: removeTokens calls completed in that interval
    \* ---- the audit log on its own (addAuditTrail, src/src/mcp/server.ts) ----
    auditLog,       \* this.auditTrails
    auditMax,       \* parseInt(process.env.MAX_AUDIT_TRAILS ?? "1000")
    auditSeq,       \* history: addAuditTrail calls made so far
    \* ---- EnhancedBiasDetector on its own (src/src/mcp/server.ts) ----
    detText,        \* the text under analysis, as its tokens
    detRuns,        \* detRuns[mode, level]: findings and score of the analysis
                    \* of detText under that configuration
    scoreList,      \* a list of findings handed to calculateComplianceScore
    scoreOut,       \* the score of scoreList
    scorePrev,      \* history: overallScore before the last finding was added
    \* ---- compliance reporting on its own (src/src/mcp/server.ts) ----
    repLog,         \* this.auditTrails of the reporting client
    repOut,         \* the report returned by the last call of
                    \* generateComplianceReport, if nothing happened since
    \* ---- EnhancedBiasDetector under call sequences ----
    detModule,      \* which of the two source files the class is taken from
    detCfg,         \* its static config: <<c>>, or <<>> for undefined
    detConfigured,  \* history: setConfig has been called
    detOut          \* outcome of detectBiasPatterns / calculateComplianceScore
                    \* on detText since the last setConfig

cbVars    == <<cb, cbCalls, consecFail, hoSucc, reopenedAt>>
cacheVars == <<cache, cacheMax, cacheOps, stamps, lastEvicted, lastOp, insRun>>
clientVars == <<detectorConfig, serverConfig, qlooClient, clients, analyses,
                batch, faults>>
rlVars    == <<limiter, rlCallers, rlCalls, rlWinStart, rlWinCount>>
auditVars == <<auditLog, auditMax, auditSeq>>
detVars   == <<detText, detRuns, scoreList, scoreOut, scorePrev>>
repVars   == <<repLog, repOut>>
callVars  == <<detModule, detCfg, detConfigured, detOut>>
vars      == <<now, cbVars, cacheVars, clientVars, rlVars, auditVars, detVars,
               repVars, callVars>>

\* ------------------------------------------------------------------------
\* Bounds of the model
\* ------------------------------------------------------------------------
MaxThreshold == 2      \* breaker thresholds 1..MaxThreshold are explored
CBTimeout    == 2      \* breaker timeout, in ticks
CBMaxTime    == 2 * CBTimeout + 3   \* the clock of SpecCB stops here
MaxCalls     == 2      \* execute() calls that may overlap

Calls == 1..MaxCalls

\* ------------------------------------------------------------------------
\* CircuitBreaker
\* ------------------------------------------------------------------------
\* successes needed in half-open before closing (the literal 3 in onSuccess)
HalfOpenSuccesses == 3

CircuitBreaker_new(threshold, timeout) ==
    [ failures        |-> 0,
      lastFailureTime |-> 0,
      threshold       |-> threshold,
      timeout         |-> timeout,
      state           |-> "closed",
      successCount    |-> 0 ]

\* The synchronous head of execute(): the open check.  admit = FALSE is the
\* throw of "Circuit breaker is OPEN - too many failures".
execute_gate_lenient(b, t) ==
    IF b.state = "open"
    THEN IF t - b.lastFailureTime >= b.timeout
         THEN [admit |-> TRUE,
               cb    |-> [b EXCEPT !.state = "half-open", !.successCount = 0]]
         ELSE [admit |-> FALSE, cb |-> b]
    ELSE [admit |-> TRUE, cb |-> b]

execute_gate(b, t) ==
    IF b.state = "open"
    THEN IF t - b.lastFailureTime > b.timeout
         THEN [admit |-> TRUE,
               cb    |-> [b EXCEPT !.state = "half-open", !.successCount = 0]]
         ELSE [admit |-> FALSE, cb |-> b]
    ELSE [admit |-> TRUE, cb |-> b]

onSuccess_early(b) ==
    IF b.state = "half-open"
    THEN LET n == b.successCount + 1
         IN  IF n >= HalfOpenSuccesses - 1
             THEN [b EXCEPT !.successCount = n, !.state = "closed", !.failures = 0]
             ELSE [b EXCEPT !.successCount = n]
    ELSE [b EXCEPT !.failures = 0, !.state = "closed"]

onSuccess(b) ==
    IF b.state = "half-open"
    THEN LET n == b.successCount + 1
         IN  IF n >= HalfOpenSuccesses
             THEN [b EXCEPT !.successCount = n, !.state = "closed", !.failures = 0]
             ELSE [b EXCEPT !.successCount = n]
    ELSE [b EXCEPT !.failures = 0, !.state = "closed"]

onFailure_strict(b, t) ==
    LET f == b.failures + 1
    IN  [b EXCEPT !.failures = f,
                  !.lastFailureTime = t,
                  !.state = IF f > b.threshold THEN "open" ELSE @]

onFailure(b, t) ==
    LET f == b.failures + 1
    IN  [b EXCEPT !.failures = f,
                  !.lastFailureTime = t,
                  !.state = IF f >= b.threshold THEN "open" ELSE @]

\* the breaker after construction, with one of the thresholds in Thresholds
InitCB(Thresholds) ==
    /\ cb \in {CircuitBreaker_new(th, CBTimeout) : th \in Thresholds}
    /\ cbCalls = [c \in Calls |-> "idle"]
    /\ consecFail = 0
    /\ hoSucc = 0
    /\ reopenedAt = {}

\* execute(fn) up to its first await: the open check, then fn() is started.
CBExecute(c) ==
    /\ cbCalls[c] # "running"
    /\ LET g == execute_gate(cb, now)
       IN  /\ cb' = g.cb
           /\ cbCalls' = [cbCalls EXCEPT ![c] = IF g.admit THEN "running"
                                                ELSE "open_error"]
           /\ hoSucc' = IF cb.state = "open" /\ g.cb.state = "half-open"
                        THEN 0 ELSE hoSucc
    /\ UNCHANGED <<now, consecFail, reopenedAt, cacheVars, clientVars, rlVars,
                   auditVars, detVars, repVars, callVars>>

\* fn() resolved: onSuccess(), the call returns the result.
CBFnResolves(c) ==
    /\ cbCalls[c] = "running"
    /\ cb' = onSuccess(cb)
    /\ cbCalls' = [cbCalls EXCEPT ![c] = "resolved"]
    /\ consecFail' = 0
    /\ hoSucc' = IF cb.state = "half-open" THEN hoSucc + 1 ELSE hoSucc
    /\ UNCHANGED <<now, reopenedAt, cacheVars, clientVars, rlVars, auditVars,
                   detVars, repVars, callVars>>

\* fn() rejected: onFailure(), the call rethrows.
CBFnRejects(c) ==
    /\ cbCalls[c] = "running"
    /\ cb' = onFailure(cb, now)
    /\ cbCalls' = [cbCalls EXCEPT ![c] = "rejected"]
    /\ consecFail' = consecFail + 1
    /\ reopenedAt' = IF cb.state = "half-open" THEN {now} ELSE reopenedAt
    /\ UNCHANGED <<now, hoSucc, cacheVars, clientVars, rlVars, auditVars, detVars,
                   repVars, callVars>>

CBTick ==
    /\ now < CBMaxTime
    /\ now' = now + 1
    /\ UNCHANGED <<cbVars, cacheVars, clientVars, rlVars, auditVars, detVars,
                   repVars, callVars>>

NextCB ==
    \/ \E c \in Calls : CBExecute(c)
    \/ \E c \in Calls : CBFnResolves(c)
    \/ \E c \in Calls : CBFnRejects(c)
    \/ CBTick

\* ------------------------------------------------------------------------
\* LRUCache
\* ------------------------------------------------------------------------
MaxCacheSize == 2      \* maxSize values 1..MaxCacheSize are explored
CacheTTL     == 1      \* ttl, in ticks
CacheMaxTime == CacheTTL + 2        \* the clock of SpecCache stops here
MaxCacheOps  == 5      \* set/get/clear calls per behaviour
NumValues    == 2

Keys   == 1..(MaxCacheSize + 2)
Values == 1..NumValues
Null   == 0            \* the null returned by get() on a miss

Has(s, k)     == \E i \in 1..Len(s) : s[i].key = k
IndexOf(s, k) == CHOOSE i \in 1..Len(s) : s[i].key = k
KeysOf(s)     == {s[i].key : i \in 1..Len(s)}
\* Map.delete(k)
MapDelete(s, k) == SelectSeq(s, LAMBDA e : e.key # k)
\* Map.set(k, e): a present key keeps its place in the iteration order
MapSet(s, e) ==
    IF Has(s, e.key) THEN [s EXCEPT ![IndexOf(s, e.key)] = e] ELSE Append(s, e)

\* get(key): result and the Map afterwards
LRUCache_get_touch(s, ttl, k, t) ==
    IF ~Has(s, k) THEN [cache |-> s, hit |-> FALSE, value |-> Null]
    ELSE LET item == s[IndexOf(s, k)]
         IN  IF t - item.timestamp > ttl
             THEN [cache |-> MapDelete(s, k), hit |-> FALSE, value |-> Null]
             ELSE [cache |-> MapSet(MapDelete(s, k),
                                    [item EXCEPT !.accessCount = @ + 1,
                                                 !.timestamp = t]),
                   hit |-> TRUE, value |-> item.value]

LRUCache_get_noReorder(s, ttl, k, t) ==
    IF ~Has(s, k) THEN [cache |-> s, hit |-> FALSE, value |-> Null]
    ELSE LET item == s[IndexOf(s, k)]
         IN  IF t - item.timestamp > ttl
             THEN [cache |-> MapDelete(s, k), hit |-> FALSE, value |-> Null]
             ELSE [cache |-> MapSet(s, [item EXCEPT !.accessCount = @ + 1]),
                   hit |-> TRUE, value |-> item.value]

LRUCache_get(s, ttl, k, t) ==
    IF ~Has(s, k) THEN [cache |-> s, hit |-> FALSE, value |-> Null]
    ELSE LET item == s[IndexOf(s, k)]
         IN  IF t - item.timestamp > ttl
             THEN [cache |-> MapDelete(s, k), hit |-> FALSE, value |-> Null]
             ELSE [cache |-> MapSet(MapDelete(s, k),
                                    [item EXCEPT !.accessCount = @ + 1]),
                   hit |-> TRUE, value |-> item.value]

\* the while loop of set(): entries deleted from the front of the Map
RECURSIVE EvictCount_offByOne(_, _)
EvictCount_offByOne(n, maxSize) ==
    IF n > maxSize /\ n > 0 THEN 1 + EvictCount_offByOne(n - 1, maxSize) ELSE 0

RECURSIVE EvictCount(_, _)
EvictCount(n, maxSize) ==
    IF n >= maxSize /\ n > 0 THEN 1 + EvictCount(n - 1, maxSize) ELSE 0

\* set(key, value): the Map afterwards and the keys the loop evicted
LRUCache_set(s, maxSize, k, v, t) ==
    LET n    == EvictCount(Len(s), maxSize)
        kept == SubSeq(s, n + 1, Len(s))
    IN  [cache   |-> MapSet(kept, [key |-> k, value |-> v,
                                   timestamp |-> t, accessCount |-> 1]),
         evicted |-> [i \in 1..n |-> s[i].key]]

Absent == [ins |-> 0, use |-> 0, at |-> 0, val |-> Null]

\* the cache after construction, with one of the sizes in Sizes
InitCache(Sizes) ==
    /\ cache = <<>>
    /\ cacheMax \in Sizes
    /\ cacheOps = 0
    /\ stamps = [k \in Keys |-> Absent]
    /\ lastEvicted = <<>>
    /\ lastOp = [op |-> "none", key |-> 0, value |-> Null, was |-> Absent]
    /\ insRun = [ok |-> TRUE, keys |-> <<>>]

\* stamps of the keys still in the Map m, all others absent
Retain(st, m) == [k \in Keys |-> IF Has(m, k) THEN st[k] ELSE Absent]

CacheSet(k, v) ==
    /\ cacheOps < MaxCacheOps
    /\ LET r     == LRUCache_set(cache, cacheMax, k, v, now)
           n     == Len(r.evicted)
           kept  == SubSeq(cache, n + 1, Len(cache))
           fresh == ~Has(kept, k)     \* k is added as a new key of the Map
       IN  /\ cache' = r.cache
           /\ lastEvicted' = r.evicted
           /\ stamps' = [Retain(stamps, r.cache) EXCEPT
                           ![k] = IF fresh
                                  THEN [ins |-> cacheOps + 1, use |-> cacheOps + 1,
                                        at |-> now, val |-> v]
                                  ELSE [stamps[k] EXCEPT !.at = now, !.val = v]]
           /\ insRun' = IF insRun.ok /\ k \notin {insRun.keys[i] : i \in 1..Len(insRun.keys)}
                        THEN [ok |-> TRUE, keys |-> Append(insRun.keys, k)]
                        ELSE [ok |-> FALSE, keys |-> <<>>]
    /\ cacheOps' = cacheOps + 1
    /\ lastOp' = [op |-> "set", key |-> k, value |-> v, was |-> Absent]
    /\ UNCHANGED <<now, cacheMax, cbVars, clientVars, rlVars, auditVars, detVars,
                   repVars, callVars>>

CacheGet(k) ==
    /\ cacheOps < MaxCacheOps
    /\ LET r == LRUCache_get(cache, CacheTTL, k, now)
       IN  /\ cache' = r.cache
           /\ lastOp' = [op |-> "get", key |-> k, value |-> r.value,
                         was |-> stamps[k]]
           /\ stamps' = [Retain(stamps, r.cache) EXCEPT
                           ![k] = IF r.value # Null
                                  THEN [stamps[k] EXCEPT !.use = cacheOps + 1]
                                  ELSE Absent]
    /\ cacheOps' = cacheOps + 1
    /\ lastEvicted' = <<>>
    /\ insRun' = [ok |-> FALSE, keys |-> <<>>]
    /\ UNCHANGED <<now, cacheMax, cbVars, clientVars, rlVars, auditVars, detVars,
                   repVars, callVars>>

\* clear()
CacheClear ==
    /\ cacheOps < MaxCacheOps
    /\ cache' = <<>>
    /\ cacheOps' = cacheOps + 1
    /\ stamps' = [k \in Keys |-> Absent]
    /\ lastEvicted' = <<>>
    /\ lastOp' = [op |-> "clear", key |-> 0, value |-> Null, was |-> Absent]
    /\ insRun' = [ok |-> TRUE, keys |-> <<>>]
    /\ UNCHANGED <<now, cacheMax, cbVars, clientVars, rlVars, auditVars, detVars,
                   repVars, callVars>>

CacheTick ==
    /\ now < CacheMaxTime
    /\ now' = now + 1
    /\ UNCHANGED <<cbVars, cacheVars, clientVars, rlVars, auditVars, detVars,
                   repVars, callVars>>

NextCache ==
    \/ \E k \in Keys, v \in Values : CacheSet(k, v)
    \/ \E k \in Keys : CacheGet(k)
    \/ CacheClear
    \/ CacheTick

\* ------------------------------------------------------------------------
\* EnhancedQlooClient, EnhancedBiasDetector.config and the tool handlers
\* (src/src/mcp/server.ts)
\* ------------------------------------------------------------------------
\* CIRCUIT_BREAKER_THRESHOLD of the client's breaker
ClientThreshold == 2
\* RATE_LIMIT_PER_MINUTE: tokens per refill interval
RateLimit       == 2
\* the limiter's interval ("minute"), in ticks
LimiterInterval == 1
\* MAX_CACHE_SIZE and CACHE_TTL_MS of the client's caches
ClientCacheSize == 1
ClientCacheTTL  == 2
\* MAX_AUDIT_TRAILS
MaxAuditTrails  == 2
\* the inter-round delay of batchCulturalAudit (1000 ms), in ticks
BatchDelay      == 1
\* analyze_content_bias calls per behaviour
MaxDirect       == 1
\* clients ever constructed (configure_environment calls + 1)
MaxClients      == 2
\* exceptions raised inside the try block of analyzeContent per behaviour
MaxFaults       == 1
\* entity names a content may contain
NumEntities     == 2
ClientMaxTime   == LimiterInterval + 1

\* const batchSize = 5 in batchCulturalAudit
BatchSize  == 5
\* entities.slice(0, 5) in analyzeContent
MaxLookups == 5
MaxBatch   == BatchSize + 1

DirectIds == 1..MaxDirect
AIds      == 1..(MaxDirect + MaxBatch)
\* the analysis of request k (1-based) of the batch
BatchId(k) == MaxDirect + k

\* a content, as the sorted list of entity names extractEntities finds in it
Contents == {[i \in 1..n |-> i] : n \in {0, NumEntities}}
\* content_array arguments: none, one, a full round or a round and one more
\* request; entity-bearing content in the last request of the longest at most
BatchLens == {0, 1, BatchSize, MaxBatch}

BatchInputs ==
    {[i \in 1..n |-> IF i \in S THEN [j \in 1..1 |-> 1] ELSE <<>>] :
        n \in BatchLens, S \in SUBSET {MaxBatch}}

DEFAULT_HACKATHON_CONFIG ==
    [ mode |-> "Hackathon", apiEndpoint |-> "https://hackathon.api.qloo.com",
      biasDetectionLevel |-> "lenient", demographicAnalysis |-> FALSE,
      complianceThresholds |-> [critical |-> 20, high |-> 40, medium |-> 60] ]

DEFAULT_PRODUCTION_CONFIG ==
    [ mode |-> "Production", apiEndpoint |-> "https://api.qloo.com",
      biasDetectionLevel |-> "strict", demographicAnalysis |-> TRUE,
      complianceThresholds |-> [critical |-> 10, high |-> 25, medium |-> 50] ]

ConfigOf(mode) ==
    IF mode = "Production" THEN DEFAULT_PRODUCTION_CONFIG
    ELSE DEFAULT_HACKATHON_CONFIG

Demographics == <<"young_adult", "middle_aged", "senior">>

SafeProperties ==
    {"release_year", "popularity", "content_rating", "rating", "price_level"}

\* an entity as the API returns it for query q
ApiEntity(q) == [entity_id |-> q, props |-> {"popularity", "description"}]

sanitizeOutput(e) == [e EXCEPT !.props = @ \cap SafeProperties]

SeqMap(Op(_), s) == [i \in 1..Len(s) |-> Op(s[i])]

Min(x, y) == IF x <= y THEN x ELSE y

\* ---- SimpleRateLimiter ----
\* removeTokens(count): the limiter afterwards and the delay of the timer the
\* caller is suspended on (0: the call returns without suspending)
SimpleRateLimiter_removeTokens_fullWait(rl, count, t) ==
    LET timePassed == t - rl.lastRefill
        r1 == IF timePassed >= rl.interval
              THEN [rl EXCEPT !.tokens = rl.tokensPerInterval, !.lastRefill = t]
              ELSE rl
    IN  IF r1.tokens >= count
        THEN [rl |-> [r1 EXCEPT !.tokens = @ - count], wait |-> 0]
        ELSE [rl |-> r1, wait |-> rl.interval]

SimpleRateLimiter_removeTokens(rl, count, t) ==
    LET timePassed == t - rl.lastRefill
        r1 == IF timePassed >= rl.interval
              THEN [rl EXCEPT !.tokens = rl.tokensPerInterval, !.lastRefill = t]
              ELSE rl
    IN  IF r1.tokens >= count
        THEN [rl |-> [r1 EXCEPT !.tokens = @ - count], wait |-> 0]
        ELSE [rl |-> r1, wait |-> rl.interval - timePassed]

\* ---- the client ----
EnhancedQlooClient_new(config, t) ==
    [ config           |-> config,
      auditTrails      |-> <<>>,
      apiCallCount     |-> 0,
      cacheHitCount    |-> 0,
      rateLimiter      |-> [ tokens |-> RateLimit, lastRefill |-> t,
                             tokensPerInterval |-> RateLimit,
                             interval |-> LimiterInterval ],
      circuitBreaker   |-> CircuitBreaker_new(ClientThreshold, CBTimeout),
      entityCache      |-> <<>>,
      demographicCache |-> <<>>,
      \* history: addAuditTrail calls made so far, per session id
      appended         |-> [a \in AIds |-> 0],
      \* history: the analysis whose entityCache.set call was the last (0: none)
      lastRound        |-> 0,
      \* history: external requests that failed since the last one that
      \* succeeded, counted up to the breaker's threshold
      apiConsecFail    |-> 0 ]

\* Array.prototype.slice(-n): the last n elements, and the whole array when
\* n is 0 (-0 is 0, the start index)
SliceLast(a, n) ==
    IF n = 0 \/ n >= Len(a) THEN a ELSE SubSeq(a, Len(a) - n + 1, Len(a))

\* the array this.auditTrails after addAuditTrail(trail)
auditTrails_push(trails, trail, maxTrails) ==
    LET pushed == Append(trails, trail)
    IN  IF Len(pushed) > maxTrails THEN SliceLast(pushed, maxTrails) ELSE pushed

addAuditTrail(cl, trail) ==
    [cl EXCEPT
       !.auditTrails = auditTrails_push(@, trail, MaxAuditTrails),
       !.appended[trail.sessionId] = @ + 1]

IdleAnalysis ==
    [ pc |-> "idle", client |-> 0, ents |-> <<>>, detCfg |-> "none",
      look |-> <<>>, demo |-> <<>>, initialApiCalls |-> 0, cacheHits |-> 0,
      cultural |-> <<>>, fault |-> FALSE,
      \* history: requests this analysis handed to axios
      sent |-> 0 ]

Settled == {"ok", "fail", "rejected", "cached_ok", "cached_fail"}

\* Promise.allSettled(calls) has resolved
AllSettled_first(calls) == \E j \in 1..Len(calls) : calls[j].st \in Settled

AllSettled(calls) == \A j \in 1..Len(calls) : calls[j].st \in Settled

\* await this.rateLimiter.removeTokens(1), up to the suspension
RECURSIVE AcquireAll(_, _, _)
AcquireAll(cl, n, t) ==
    IF n = 0 THEN [client |-> cl, calls |-> <<>>]
    ELSE LET p == AcquireAll(cl, n - 1, t)
             r == SimpleRateLimiter_removeTokens(p.client.rateLimiter, 1, t)
         IN  [client |-> [p.client EXCEPT !.rateLimiter = r.rl],
              calls  |-> Append(p.calls,
                                IF r.wait = 0 THEN [st |-> "ready", wake |-> 0]
                                ELSE [st |-> "wait", wake |-> t + r.wait])]

\* Step 5 of analyzeContent: the audit record, addAuditTrail, return
analyzeContent_finish(w, a, t) ==
    LET an == w.analyses[a]
        cl == w.clients[an.client]
        trail == [ sessionId     |-> a,
                   timestamp     |-> t,
                   error         |-> FALSE,
                   apiCallsCount |-> cl.apiCallCount - an.initialApiCalls,
                   cacheHits     |-> an.cacheHits ]
    IN  [w EXCEPT !.clients[an.client] = addAuditTrail(cl, trail),
                  !.analyses[a].pc = "returned"]

\* the catch block of analyzeContent: the error record, addAuditTrail, rethrow
analyzeContent_catch_silent(w, a, t) ==
    [w EXCEPT !.analyses[a].pc = "threw", !.analyses[a].fault = TRUE]

analyzeContent_catch(w, a, t) ==
    LET an == w.analyses[a]
        cl == w.clients[an.client]
        trail == [ sessionId     |-> a,
                   timestamp     |-> t,
                   error         |-> TRUE,
                   apiCallsCount |-> cl.apiCallCount - an.initialApiCalls,
                   cacheHits     |-> an.cacheHits ]
    IN  [w EXCEPT !.clients[an.client] = addAuditTrail(cl, trail),
                  !.analyses[a].pc = "threw",
                  !.analyses[a].fault = TRUE]

DemoKey(d, cultural) ==
    <<"demo", Demographics[d]>> \o SeqMap(LAMBDA e : e.entity_id, cultural)

\* getDemographicAnalysis up to await Promise.allSettled: per demographic the
\* cache lookup and, on a miss, removeTokens(1)
RECURSIVE DemoStart(_, _, _, _)
DemoStart(cl, ents3, d, t) ==
    IF d = 0 THEN [client |-> cl, calls |-> <<>>]
    ELSE LET p  == DemoStart(cl, ents3, d - 1, t)
             c0 == p.client
             g  == LRUCache_get(c0.demographicCache, ClientCacheTTL,
                                DemoKey(d, ents3), t)
             c1 == [c0 EXCEPT !.demographicCache = g.cache]
         IN  IF g.hit
             THEN [client |-> [c1 EXCEPT !.cacheHitCount = @ + 1],
                   calls  |-> Append(p.calls,
                                [st |-> IF g.value.success THEN "cached_ok"
                                        ELSE "cached_fail", wake |-> 0])]
             ELSE LET r == SimpleRateLimiter_removeTokens(c1.rateLimiter, 1, t)
                  IN  [client |-> [c1 EXCEPT !.rateLimiter = r.rl],
                       calls  |-> Append(p.calls,
                                    IF r.wait = 0 THEN [st |-> "ready", wake |-> 0]
                                    ELSE [st |-> "wait", wake |-> t + r.wait])]

\* Step 3 of analyzeContent, then Steps 4-5 when no demographic analysis runs
analyzeContent_step3_always(w, a, t) ==
    LET an == w.analyses[a]
        cl == w.clients[an.client]
        r  == DemoStart(cl, SubSeq(an.cultural, 1, Min(3, Len(an.cultural))),
                        Len(Demographics), t)
    IN  [w EXCEPT !.clients[an.client] = r.client,
                  !.analyses[a].demo = r.calls,
                  !.analyses[a].pc = "demo"]

analyzeContent_step3(w, a, t) ==
    LET an == w.analyses[a]
        cl == w.clients[an.client]
    IN  IF Len(an.cultural) > 0 /\ cl.config.demographicAnalysis
        THEN LET r == DemoStart(cl, SubSeq(an.cultural, 1, Min(3, Len(an.cultural))),
                                Len(Demographics), t)
             IN  [w EXCEPT !.clients[an.client] = r.client,
                           !.analyses[a].demo = r.calls,
                           !.analyses[a].pc = "demo"]
        ELSE analyzeContent_finish(w, a, t)

\* if (cachedResults): the value get() returned is an array or undefined, and
\* every array, the empty one included, is truthy
cachedResults_nonEmpty(g) == g.hit /\ Len(g.value) > 0

cachedResults(g) == g.hit

\* analyzeContent(content) from its call to its first await (or its return):
\* dc is EnhancedBiasDetector.config, throws an exception raised in the try block
analyzeContent_start(w, a, ents, ci, dc, t, throws) ==
    LET cl == w.clients[ci]
        a0 == [IdleAnalysis EXCEPT !.client = ci, !.ents = ents,
                                   !.initialApiCalls = cl.apiCallCount]
        w0 == [w EXCEPT !.analyses[a] = a0]
    IN  IF throws THEN analyzeContent_catch(w0, a, t)
        ELSE
        LET w1 == [w0 EXCEPT !.analyses[a].detCfg = dc.mode]
        IN  IF Len(ents) = 0 THEN analyzeContent_finish(w1, a, t)
            ELSE
            LET g == LRUCache_get(cl.entityCache, ClientCacheTTL, ents, t)
                c1 == [cl EXCEPT !.entityCache = g.cache]
            IN  IF cachedResults(g)
                THEN analyzeContent_step3(
                        [w1 EXCEPT !.clients[ci] = c1,
                                   !.analyses[a].cacheHits = 1,
                                   !.analyses[a].cultural =
                                        SeqMap(sanitizeOutput, g.value)],
                        a, t)
                ELSE LET r == AcquireAll(c1, Min(Len(ents), MaxLookups), t)
                     IN  [w1 EXCEPT !.clients[ci] = r.client,
                                    !.analyses[a].look = r.calls,
                                    !.analyses[a].pc = "lookup"]

\* the entities of the lookups that fulfilled with success, in lookup order
RECURSIVE successfulResults(_, _, _)
successfulResults(ents, look, n) ==
    IF n = 0 THEN <<>>
    ELSE successfulResults(ents, look, n - 1) \o
         (IF look[n].st = "ok" THEN <<ApiEntity(ents[n])>> ELSE <<>>)

\* analyzeContent after await Promise.allSettled(entityPromises)
analyzeContent_merge(w, a, t, throws) ==
    IF throws THEN analyzeContent_catch(w, a, t)
    ELSE
    LET an  == w.analyses[a]
        cl  == w.clients[an.client]
        ok  == successfulResults(an.ents, an.look, Len(an.look))
        s   == LRUCache_set(cl.entityCache, ClientCacheSize, an.ents, ok, t)
    IN  analyzeContent_step3(
            [w EXCEPT !.clients[an.client].entityCache = s.cache,
                      !.clients[an.client].lastRound = a,
                      !.analyses[a].cultural = SeqMap(sanitizeOutput, ok)],
            a, t)

World == [clients |-> clients, analyses |-> analyses]

\* the calls analysis a is currently awaiting
Pending(an) == IF an.pc = "lookup" THEN an.look
               ELSE IF an.pc = "demo" THEN an.demo ELSE <<>>

ReadyCalls ==
    {<<a, j>> \in AIds \X (1..MaxLookups) :
        j <= Len(Pending(analyses[a])) /\ Pending(analyses[a])[j].st = "ready"}

\* the analyses of the current round of the batch
RoundIds(b) ==
    {BatchId(k) : k \in (b.i + 1)..Min(b.i + BatchSize, Len(b.reqs))}

RoundDone(b) ==
    /\ b.pc = "running"
    /\ \A a \in RoundIds(b) : analyses[a].pc \in {"returned", "threw"}

\* a promise continuation is queued: it runs before any timer, response or
\* new tool call
MicrotaskPending ==
    \/ ReadyCalls # {}
    \/ \E a \in AIds : /\ analyses[a].pc \in {"lookup", "demo"}
                       /\ AllSettled(Pending(analyses[a]))
    \/ RoundDone(batch)

TimerDue ==
    \/ \E a \in AIds : \E j \in 1..Len(Pending(analyses[a])) :
          /\ Pending(analyses[a])[j].st = "wait"
          /\ Pending(analyses[a])[j].wake <= now
    \/ batch.pc = "delay" /\ batch.wake <= now

SetCall(an, j, c) ==
    IF an.pc = "lookup" THEN [an EXCEPT !.look[j] = c]
    ELSE [an EXCEPT !.demo[j] = c]

InitClient(Modes) ==
    /\ serverConfig \in {ConfigOf(m) : m \in Modes}
    /\ detectorConfig = serverConfig
    /\ clients = <<EnhancedQlooClient_new(serverConfig, now)>>
    /\ qlooClient = 1
    /\ analyses = [a \in AIds |-> IdleAnalysis]
    /\ batch = [pc |-> "none", client |-> 0, reqs |-> <<>>, i |-> 0,
                wake |-> 0, results |-> <<>>, rounds |-> 0]
    /\ faults = 0

\* handler analyze_content_bias: qlooClient.analyzeContent(args.content)
AnalyzeContentBias(a, ents, throws) ==
    /\ analyses[a].pc = "idle"
    /\ ~MicrotaskPending
    /\ \A b \in DirectIds : b < a => analyses[b].pc # "idle"
    /\ throws => faults < MaxFaults
    /\ LET w == analyzeContent_start(World, a, ents, qlooClient,
                                     detectorConfig, now, throws)
       IN  /\ clients' = w.clients
           /\ analyses' = w.analyses
    /\ faults' = IF throws THEN faults + 1 ELSE faults
    /\ UNCHANGED <<now, detectorConfig, serverConfig, qlooClient, batch,
                   cbVars, cacheVars, rlVars, auditVars, detVars, repVars,
                   callVars>>

\* the continuation of removeTokens: searchEntities / getDemographicInsights
\* enters circuitBreaker.execute, and the request interceptor counts the call
IssueCall(a, j) ==
    /\ j \in 1..Len(Pending(analyses[a]))
    /\ Pending(analyses[a])[j].st = "ready"
    /\ \A p \in ReadyCalls : p[1] > a \/ (p[1] = a /\ p[2] >= j)
    /\ LET an == analyses[a]
           cl == clients[an.client]
           g  == execute_gate(cl.circuitBreaker, now)
       IN  /\ clients' = [clients EXCEPT ![an.client] =
                 [cl EXCEPT !.circuitBreaker = g.cb,
                            !.apiCallCount = IF g.admit THEN @ + 1 ELSE @]]
           /\ analyses' = [analyses EXCEPT ![a] =
                 [SetCall(an, j, [st |-> IF g.admit THEN "inflight"
                                         ELSE "rejected",
                                  wake |-> 0])
                    EXCEPT !.sent = IF g.admit THEN @ + 1 ELSE @]]
    /\ UNCHANGED <<now, detectorConfig, serverConfig, qlooClient, batch, faults,
                   cbVars, cacheVars, rlVars, auditVars, detVars, repVars,
                   callVars>>

\* the outcome of this.api.get(): a response (ok) or an error: HTTP 429, 401,
\* 403, 5xx, network error, per-call timeout.  fn catches the error and
\* returns {success: false}, so execute() runs onSuccess() in both cases.
\* getDemographicAnalysis then stores the response in the demographic cache.
\* The lookups of an analysis are answered in any order; its demographic
\* requests are answered in the order they were sent.
ApiResponds(a, j, ok) ==
    /\ j \in 1..Len(Pending(analyses[a]))
    /\ Pending(analyses[a])[j].st = "inflight"
    /\ analyses[a].pc = "demo" =>
          \A i \in 1..(j - 1) : analyses[a].demo[i].st # "inflight"
    /\ ~MicrotaskPending
    /\ LET an == analyses[a]
           cl == clients[an.client]
           c1 == [cl EXCEPT !.circuitBreaker = onSuccess(@),
                            !.apiConsecFail = IF ok THEN 0
                                             ELSE Min(@ + 1, ClientThreshold)]
           c2 == IF an.pc = "demo"
                 THEN [c1 EXCEPT !.demographicCache =
                         LRUCache_set(@, ClientCacheSize,
                                      DemoKey(j, SubSeq(an.cultural, 1,
                                                 Min(3, Len(an.cultural)))),
                                      [success  |-> ok,
                                       entities |-> IF ok THEN <<ApiEntity(j)>>
                                                    ELSE <<>>], now).cache]
                 ELSE c1
       IN  /\ clients' = [clients EXCEPT ![an.client] = c2]
           /\ analyses' = [analyses EXCEPT ![a] =
                 SetCall(an, j, [st |-> IF ok THEN "ok" ELSE "fail", wake |-> 0])]
    /\ UNCHANGED <<now, detectorConfig, serverConfig, qlooClient, batch, faults,
                   cbVars, cacheVars, rlVars, auditVars, detVars, repVars,
                   callVars>>

\* the timer of a suspended removeTokens fires: the caller resumes (timers of
\* equal delay fire in the order they were set)
TokenTimerFires(a, j) ==
    /\ j \in 1..Len(Pending(analyses[a]))
    /\ Pending(analyses[a])[j].st = "wait"
    /\ Pending(analyses[a])[j].wake <= now
    /\ \A i \in 1..(j - 1) : Pending(analyses[a])[i].st # "wait"
    /\ ~MicrotaskPending
    /\ analyses' = [analyses EXCEPT ![a] =
          SetCall(analyses[a], j, [st |-> "ready", wake |-> 0])]
    /\ UNCHANGED <<now, detectorConfig, serverConfig, qlooClient, clients, batch,
                   faults, cbVars, cacheVars, rlVars, auditVars, detVars,
                   repVars, callVars>>

\* Promise.allSettled(entityPromises) resolved: merge, cache, Steps 3-5
LookupsSettled(a, throws) ==
    /\ analyses[a].pc = "lookup"
    /\ AllSettled(analyses[a].look)
    /\ throws => faults < MaxFaults
    /\ LET w == analyzeContent_merge(World, a, now, throws)
       IN  /\ clients' = w.clients
           /\ analyses' = w.analyses
    /\ faults' = IF throws THEN faults + 1 ELSE faults
    /\ UNCHANGED <<now, detectorConfig, serverConfig, qlooClient, batch,
                   cbVars, cacheVars, rlVars, auditVars, detVars, repVars,
                   callVars>>

\* Promise.allSettled(promises) of getDemographicAnalysis resolved: Steps 4-5
DemographicsSettled(a) ==
    /\ analyses[a].pc = "demo"
    /\ AllSettled(analyses[a].demo)
    /\ LET w == analyzeContent_finish(World, a, now)
       IN  /\ clients' = w.clients
           /\ analyses' = w.analyses
    /\ UNCHANGED <<now, detectorConfig, serverConfig, qlooClient, batch, faults,
                   cbVars, cacheVars, rlVars, auditVars, detVars, repVars,
                   callVars>>

\* handler configure_environment: serverConfig and qlooClient are replaced;
\* the constructor of the new client calls EnhancedBiasDetector.setConfig
ConfigureEnvironment(mode) ==
    /\ Len(clients) < MaxClients
    /\ ~MicrotaskPending
    /\ LET newConfig == ConfigOf(mode)
       IN  /\ serverConfig' = newConfig
           /\ detectorConfig' = newConfig
           /\ clients' = Append(clients, EnhancedQlooClient_new(newConfig, now))
           /\ qlooClient' = Len(clients) + 1
    /\ UNCHANGED <<now, analyses, batch, faults, cbVars, cacheVars, rlVars,
                   auditVars, detVars, repVars, callVars>>

\* one round of the for loop of batchCulturalAudit: batch.map calls
\* this.analyzeContent for each request of the round, in order
RECURSIVE StartRound(_, _, _, _, _, _)
StartRound(w, b, k, last, dc, thrower) ==
    IF k > last THEN w
    ELSE StartRound(analyzeContent_start(w, BatchId(k), b.reqs[k], b.client,
                                         dc, now, BatchId(k) = thrower),
                    b, k + 1, last, dc, thrower)

Dispatch(b, thrower) ==
    /\ thrower # 0 => /\ thrower = BatchId(b.i + 1)
                      /\ b.i < Len(b.reqs)
                      /\ faults < MaxFaults
    /\ LET w == StartRound(World, b, b.i + 1,
                           Min(b.i + BatchSize, Len(b.reqs)),
                           detectorConfig, thrower)
       IN  /\ clients' = w.clients
           /\ analyses' = w.analyses
    /\ faults' = IF thrower # 0 THEN faults + 1 ELSE faults
    /\ batch' = IF b.i < Len(b.reqs)
                THEN [b EXCEPT !.pc = "running", !.rounds = @ + 1]
                ELSE [b EXCEPT !.pc = "done"]

\* handler batch_cultural_audit: qlooClient.batchCulturalAudit(content_array)
BatchCulturalAudit(reqs, thrower) ==
    /\ batch.pc = "none"
    /\ ~MicrotaskPending
    /\ Dispatch([batch EXCEPT !.client = qlooClient, !.reqs = reqs], thrower)
    /\ UNCHANGED <<now, detectorConfig, serverConfig, qlooClient,
                   cbVars, cacheVars, rlVars, auditVars, detVars, repVars,
                   callVars>>

\* if (i + batchSize < requests.length): another round follows
MoreRounds_always(b) == TRUE

MoreRounds(b) == b.i + BatchSize < Len(b.reqs)

\* Promise.all(batchPromises) resolved: the results of the round are pushed,
\* then the inter-round delay starts or the batch returns
BatchRoundSettled ==
    /\ RoundDone(batch)
    /\ LET last == Min(batch.i + BatchSize, Len(batch.reqs))
           res  == [k \in 1..(last - batch.i) |->
                      [index |-> batch.i + k - 1,
                       error |-> analyses[BatchId(batch.i + k)].pc = "threw"]]
       IN  batch' = [batch EXCEPT
                       !.results = @ \o res,
                       !.pc = IF MoreRounds(batch) THEN "delay" ELSE "done",
                       !.wake = now + BatchDelay]
    /\ UNCHANGED <<now, detectorConfig, serverConfig, qlooClient, clients,
                   analyses, faults, cbVars, cacheVars, rlVars, auditVars,
                   detVars, repVars, callVars>>

\* the inter-round timer fires: the next round is dispatched
BatchDelayElapsed(thrower) ==
    /\ batch.pc = "delay"
    /\ batch.wake <= now
    /\ ~MicrotaskPending
    /\ Dispatch([batch EXCEPT !.i = @ + BatchSize], thrower)
    /\ UNCHANGED <<now, detectorConfig, serverConfig, qlooClient,
                   cbVars, cacheVars, rlVars, auditVars, detVars, repVars,
                   callVars>>

ClientTick ==
    /\ now < ClientMaxTime
    /\ ~MicrotaskPending
    /\ ~TimerDue
    /\ now' = now + 1
    /\ UNCHANGED <<clientVars, cbVars, cacheVars, rlVars, auditVars, detVars,
                   repVars, callVars>>

NextClient ==
    \/ \E a \in DirectIds, ents \in Contents, throws \in BOOLEAN :
          AnalyzeContentBias(a, ents, throws)
    \/ \E a \in AIds, j \in 1..MaxLookups : IssueCall(a, j)
    \/ \E a \in AIds, j \in 1..MaxLookups, ok \in BOOLEAN : ApiResponds(a, j, ok)
    \/ \E a \in AIds, j \in 1..MaxLookups : TokenTimerFires(a, j)
    \/ \E a \in AIds, throws \in BOOLEAN : LookupsSettled(a, throws)
    \/ \E a \in AIds : DemographicsSettled(a)
    \/ \E mode \in {"Hackathon", "Production"} : ConfigureEnvironment(mode)
    \/ \E reqs \in BatchInputs, thrower \in {0} \cup AIds :
          BatchCulturalAudit(reqs, thrower)
    \/ BatchRoundSettled
    \/ \E thrower \in {0} \cup AIds : BatchDelayElapsed(thrower)
    \/ ClientTick

\* two analyze_content_bias calls on content with entity candidates, made on
\* the client constructed at start-up (Hackathon configuration: no
\* demographic analysis): the second call may start while the first awaits
\* its lookups, or after it, also after the cache entry of the first expired
MaxPair == 2
\* the clock runs past the expiry of a cache entry written at the start
PairMaxTime == ClientCacheTTL + 2

PairTick ==
    /\ now < PairMaxTime
    /\ ~MicrotaskPending
    /\ ~TimerDue
    /\ now' = now + 1
    /\ UNCHANGED <<clientVars, cbVars, cacheVars, rlVars, auditVars, detVars,
                   repVars, callVars>>

NextPair ==
    \/ \E a \in 1..MaxPair, ents \in Contents \ {<<>>} :
          AnalyzeContentBias(a, ents, FALSE)
    \/ \E a \in 1..MaxPair, j \in 1..MaxLookups : IssueCall(a, j)
    \/ \E a \in 1..MaxPair, j \in 1..MaxLookups, ok \in BOOLEAN :
          ApiResponds(a, j, ok)
    \/ \E a \in 1..MaxPair, j \in 1..MaxLookups : TokenTimerFires(a, j)
    \/ \E a \in 1..MaxPair, throws \in BOOLEAN : LookupsSettled(a, throws)
    \/ PairTick

\* two analyze_content_bias calls, one after the other has returned, on the
\* same content, which has one candidate more than analyzeContent looks up
LongContent == [i \in 1..(MaxLookups + 1) |-> i]

\* no analysis is awaiting lookups
Quiet == \A a \in AIds : analyses[a].pc # "lookup"

NextLong ==
    \/ \E a \in 1..MaxPair : Quiet /\ AnalyzeContentBias(a, LongContent, FALSE)
    \/ \E a \in 1..MaxPair, j \in 1..MaxLookups : IssueCall(a, j)
    \/ \E a \in 1..MaxPair, j \in 1..MaxLookups, ok \in BOOLEAN :
          ApiResponds(a, j, ok)
    \/ \E a \in 1..MaxPair, j \in 1..MaxLookups : TokenTimerFires(a, j)
    \/ \E a \in 1..MaxPair, throws \in BOOLEAN : LookupsSettled(a, throws)
    \/ PairTick

\* ------------------------------------------------------------------------
\* SimpleRateLimiter on its own (src/src/index.ts): any number of callers
\* ------------------------------------------------------------------------
\* callers of removeTokens and calls per behaviour
MaxRLCallers == 3
MaxRLCalls   == 5
RLInterval   == 2
RLMaxTime    == 2 * RLInterval + 2
RLCallers    == 1..MaxRLCallers

SimpleRateLimiter_new(t) ==
    [ tokens |-> RateLimit, lastRefill |-> t,
      tokensPerInterval |-> RateLimit, interval |-> RLInterval ]

InitRL ==
    /\ limiter = SimpleRateLimiter_new(now)
    /\ rlCallers = [c \in RLCallers |-> 0]
    /\ rlCalls = 0
    /\ rlWinStart = now
    /\ rlWinCount = 0

\* history: a removeTokens call completes at time t.  The refill interval in
\* course is the one that began at the last refill; a call completing at or
\* after its end (a suspended caller resuming at the boundary) begins the next.
RLCompletes(start, t) ==
    IF t >= rlWinStart + limiter.interval \/ start > rlWinStart
    THEN /\ rlWinStart' = IF start > rlWinStart THEN start ELSE t
         /\ rlWinCount' = 1
    ELSE /\ rlWinCount' = rlWinCount + 1
         /\ UNCHANGED rlWinStart

\* caller c calls removeTokens(n); the history counts the completions of
\* removeTokens(1) calls
RLRemoveTokens(c, n) ==
    /\ rlCalls < MaxRLCalls
    /\ rlCallers[c] = 0
    /\ LET r == SimpleRateLimiter_removeTokens(limiter, n, now)
       IN  /\ limiter' = r.rl
           /\ IF r.wait = 0
              THEN /\ IF n = 1 THEN RLCompletes(r.rl.lastRefill, now)
                              ELSE UNCHANGED <<rlWinStart, rlWinCount, callVars>>
                   /\ UNCHANGED rlCallers
              ELSE /\ rlCallers' = [rlCallers EXCEPT ![c] = now + r.wait]
                   /\ UNCHANGED <<rlWinStart, rlWinCount, auditVars, detVars, repVars, callVars>>
    /\ rlCalls' = rlCalls + 1
    /\ UNCHANGED <<now, cbVars, cacheVars, clientVars, auditVars, detVars, repVars,
                   callVars>>

\* the timer of a suspended caller fires: its removeTokens call completes
RLTimerFires(c) ==
    /\ rlCallers[c] # 0
    /\ rlCallers[c] <= now
    /\ rlCallers' = [rlCallers EXCEPT ![c] = 0]
    /\ RLCompletes(rlWinStart, now)
    /\ UNCHANGED <<now, limiter, rlCalls, cbVars, cacheVars, clientVars, auditVars,
                   detVars, repVars, callVars>>

RLTick ==
    /\ now < RLMaxTime
    /\ \A c \in RLCallers : rlCallers[c] = 0 \/ rlCallers[c] > now
    /\ now' = now + 1
    /\ UNCHANGED <<rlVars, cbVars, cacheVars, clientVars, auditVars, detVars,
                   repVars, callVars>>

NextRL ==
    \/ \E c \in RLCallers, n \in 1..RateLimit : RLRemoveTokens(c, n)
    \/ \E c \in RLCallers : RLTimerFires(c)
    \/ RLTick

\* ------------------------------------------------------------------------
\* The audit log on its own: addAuditTrail under any MAX_AUDIT_TRAILS >= 0
\* ------------------------------------------------------------------------
\* addAuditTrail calls per behaviour
MaxAppends == 6

InitAudit(Maxima) ==
    /\ auditLog = <<>>
    /\ auditMax \in Maxima
    /\ auditSeq = 0

\* addAuditTrail(trail), trail being the record of a completed or failed analysis
AuditAppend(error) ==
    /\ auditSeq < MaxAppends
    /\ auditLog' = auditTrails_push(auditLog,
                                    [sessionId |-> auditSeq + 1, error |-> error],
                                    auditMax)
    /\ auditSeq' = auditSeq + 1
    /\ UNCHANGED <<now, auditMax, cbVars, cacheVars, clientVars, rlVars, detVars,
                   repVars, callVars>>

NextAudit == \E error \in BOOLEAN : AuditAppend(error)

\* ------------------------------------------------------------------------
\* EnhancedBiasDetector (src/src/mcp/server.ts; src/src/bias-detector.ts has
\* the same table and the same arithmetic).
\*
\* A text is the sequence of its lower-cased tokens: a token is a maximal
\* run of word characters, or one of the punctuation marks "," "!" "'" "."
\* "-", or " " for a gap of white space wider than the single blank that
\* separates adjacent words.  Two adjacent word tokens are separated by one
\* blank; "-" joins its neighbours without blanks.
\* Confidences are in thousandths, scores in thousandths of a point.
\* ------------------------------------------------------------------------
Milli == 1000

guys_only ==
    [ name |-> "guys_only", type |-> "gender_exclusive", severity |-> "medium",
      phrases |->
          <<<<"guys">>,
            <<"bros">>,
            <<"brotherhood">>,
            <<"manpower">>,
            <<"man", "-", "hours">>,
            <<"policeman">>,
            <<"fireman">>,
            <<"chairman">>,
            <<"businessman">>>>,
      first |-> {},
      second |-> {},
      regulation_risk |-> {"EU_AI_ACT", "EEOC", "TITLE_VII"},
      detectionLevel |-> {"strict", "moderate"} ]

gendered_roles ==
    [ name |-> "gendered_roles", type |-> "gender_exclusive", severity |-> "medium",
      phrases |->
          <<>>,
      first |-> {"rockstar", "ninja", "guru", "wizard"},
      second |-> {"developer", "engineer", "programmer"},
      regulation_risk |-> {"EU_AI_ACT", "EEOC"},
      detectionLevel |-> {"strict"} ]

age_proxy ==
    [ name |-> "age_proxy", type |-> "age_discriminatory", severity |-> "high",
      phrases |->
          <<<<"young">>,
            <<"recent", "graduate">>,
            <<"digital", "native">>,
            <<"energy">>,
            <<"fresh">>,
            <<"millennial">>,
            <<"gen", "-", "z">>,
            <<"generation", "z">>,
            <<"under", "30">>,
            <<"20", "-", "something">>>>,
      first |-> {},
      second |-> {},
      regulation_risk |-> {"ADEA", "EU_AI_ACT", "AGE_DISCRIMINATION_ACT"},
      detectionLevel |-> {"strict", "moderate", "lenient"} ]

senior_bias ==
    [ name |-> "senior_bias", type |-> "age_discriminatory", severity |-> "high",
      phrases |->
          <<<<"overqualified">>,
            <<"too", "experienced">>,
            <<"set", "in", "ways">>,
            <<"old", "school">>,
            <<"traditional", "methods">>,
            <<"not", "tech", "-", "savvy">>>>,
      first |-> {},
      second |-> {},
      regulation_risk |-> {"ADEA", "EU_AI_ACT"},
      detectionLevel |-> {"strict", "moderate"} ]

location_proxy ==
    [ name |-> "location_proxy", type |-> "racial_proxy", severity |-> "critical",
      phrases |->
          <<<<"94110">>,
            <<"94102">>,
            <<"10025">>,
            <<"10128">>,
            <<"90210">>,
            <<"90211">>,
            <<"60601">>,
            <<"60605">>,
            <<"inner", "city">>,
            <<"urban">>,
            <<"suburban">>,
            <<"from", "the", "hood">>,
            <<"ghetto">>,
            <<"barrio">>>>,
      first |-> {},
      second |-> {},
      regulation_risk |-> {"FAIR_HOUSING_ACT", "GDPR", "EU_AI_ACT", "CIVIL_RIGHTS_ACT"},
      detectionLevel |-> {"strict", "moderate", "lenient"} ]

education_proxy ==
    [ name |-> "education_proxy", type |-> "racial_proxy", severity |-> "medium",
      phrases |->
          <<<<"ivy", "league">>,
            <<"tier", "-", "1", "college">>,
            <<"top", "university">>,
            <<"elite", "school">>,
            <<"prestigious", "institution">>>>,
      first |-> {},
      second |-> {},
      regulation_risk |-> {"EU_AI_ACT", "EEOC"},
      detectionLevel |-> {"strict"} ]

cultural_assumption ==
    [ name |-> "cultural_assumption", type |-> "cultural_insensitive", severity |-> "high",
      phrases |->
          <<<<"native", "speaker">>,
            <<"american", "values">>,
            <<"western", "mindset">>,
            <<"traditional", "family">>,
            <<"christian", "values">>,
            <<"normal", "family">>,
            <<"typical", "american">>>>,
      first |-> {},
      second |-> {},
      regulation_risk |-> {"TITLE_VII", "EU_AI_ACT", "RELIGIOUS_FREEDOM_ACT"},
      detectionLevel |-> {"strict", "moderate"} ]

name_bias ==
    [ name |-> "name_bias", type |-> "cultural_insensitive", severity |-> "critical",
      phrases |->
          <<<<"easy", "to", "pronounce", "name">>,
            <<"american", "sounding", "name">>,
            <<"simple", "name">>,
            <<"anglicized", "name">>>>,
      first |-> {},
      second |-> {},
      regulation_risk |-> {"TITLE_VII", "EU_AI_ACT", "NATIONAL_ORIGIN_DISCRIMINATION"},
      detectionLevel |-> {"strict", "moderate", "lenient"} ]

ability_exclusive ==
    [ name |-> "ability_exclusive", type |-> "accessibility_barrier", severity |-> "critical",
      phrases |->
          <<<<"must", "be", "able", "to", "lift">>,
            <<"perfect", "vision">>,
            <<"hearing", "required">>,
            <<"no", "accommodations">>,
            <<"physically", "demanding">>,
            <<"requires", "standing">>,
            <<"manual", "dexterity", "required">>>>,
      first |-> {},
      second |-> {},
      regulation_risk |-> {"ADA", "SECTION_508", "EU_ACCESSIBILITY_ACT", "REHABILITATION_ACT"},
      detectionLevel |-> {"strict", "moderate", "lenient"} ]

cognitive_bias ==
    [ name |-> "cognitive_bias", type |-> "accessibility_barrier", severity |-> "medium",
      phrases |->
          <<<<"fast", "-", "paced", "environment">>,
            <<"high", "-", "stress">>,
            <<"multitasking", "required">>,
            <<"quick", "thinking">>,
            <<"rapid", "response">>,
            <<"immediate", "decisions">>>>,
      first |-> {},
      second |-> {},
      regulation_risk |-> {"ADA", "EU_ACCESSIBILITY_ACT"},
      detectionLevel |-> {"strict"} ]

\* Object.entries(BIAS_PATTERNS), in insertion order
BIAS_PATTERNS ==
    << guys_only, gendered_roles, age_proxy, senior_bias, location_proxy,
       education_proxy, cultural_assumption, name_bias, ability_exclusive,
       cognitive_bias >>

\* sanitizeInput: every character outside [\w\s\-_.] becomes a blank.  (Tags,
\* "javascript:" and "data:" do not occur in the texts explored, and no text
\* comes near the 10 000 character cap.)
UnsafeMarks == {",", "!", "'"}

sanitizeInput(text) ==
    [i \in 1..Len(text) |-> IF text[i] \in UnsafeMarks THEN " " ELSE text[i]]

\* one literal alternative of a pattern matches at position i
PhraseAt(text, i, p) ==
    /\ i + Len(p) - 1 <= Len(text)
    /\ SubSeq(text, i, i + Len(p) - 1) = p

\* length of the first alternative (in the pattern's order) matching at i
RECURSIVE PhraseLenAt(_, _, _, _)
PhraseLenAt(text, i, phrases, n) ==
    IF n > Len(phrases) THEN 0
    ELSE IF PhraseAt(text, i, phrases[n]) THEN Len(phrases[n])
    ELSE PhraseLenAt(text, i, phrases, n + 1)

\* \b(first)\s+(second)\b : a first word, white space, a second word
RolesLenAt(text, i, pat) ==
    IF text[i] \notin pat.first THEN 0
    ELSE LET J == {j \in (i + 1)..Len(text) :
                     /\ text[j] \in pat.second
                     /\ \A k \in (i + 1)..(j - 1) : text[k] = " "}
         IN  IF J = {} THEN 0 ELSE (CHOOSE j \in J : TRUE) - i + 1

MatchLenAt(text, i, pat) ==
    IF Len(pat.phrases) > 0 THEN PhraseLenAt(text, i, pat.phrases, 1)
    ELSE RolesLenAt(text, i, pat)

\* String.prototype.match with a global regex: the matches from left to
\* right, each search resuming after the previous match; <<>> stands for null
RECURSIVE Matches(_, _, _)
Matches(text, i, pat) ==
    IF i > Len(text) THEN <<>>
    ELSE LET n == MatchLenAt(text, i, pat)
         IN  IF n = 0 THEN Matches(text, i + 1, pat)
             ELSE <<SubSeq(text, i, i + n - 1)>> \o Matches(text, i + n, pat)

\* the detection-level filter of detectBiasPatterns
IsActive_always(pat, level) == TRUE

IsActive_swapped(pat, level) ==
    (IF level = "strict" THEN "lenient" ELSE "strict") \in pat.detectionLevel

IsActive(pat, level) == level \in pat.detectionLevel

ContextWords(type) ==
    CASE type = "gender_exclusive" ->
           {"hiring", "job", "position", "role", "team"}
      [] type = "age_discriminatory" ->
           {"candidate", "applicant", "hire", "employee"}
      [] type = "racial_proxy" -> {"location", "area", "neighborhood", "zip"}
      [] type = "cultural_insensitive" ->
           {"background", "culture", "family", "values"}
      [] type = "accessibility_barrier" ->
           {"requirement", "must", "able", "capacity"}
      [] OTHER -> {}

calculateConfidence(matches, text, biasType) ==
    LET contextMatches ==
            Cardinality({w \in ContextWords(biasType) :
                           \E i \in 1..Len(text) : text[i] = w})
    IN  Min(700 + Min(Len(matches) * 100, 200) + contextMatches * 50, Milli)

\* the environment-specific adjustment, before the cap at 1.0
AdjustConfidence(confidence, severity, mode) ==
    IF mode = "Hackathon"
    THEN IF severity \in {"low", "medium"} THEN (confidence * 8) \div 10
         ELSE confidence
    ELSE IF mode = "Production" THEN (confidence * 11) \div 10
    ELSE confidence

\* Array.prototype.sort((a, b) => b.confidence - a.confidence): stable,
\* descending by confidence
InsertSorted(sorted, f) ==
    LET k == Cardinality({i \in 1..Len(sorted) :
                            sorted[i].confidence >= f.confidence})
    IN  SubSeq(sorted, 1, k) \o <<f>> \o SubSeq(sorted, k + 1, Len(sorted))

RECURSIVE SortByConfidence(_)
SortByConfidence(fs) ==
    IF fs = <<>> THEN <<>>
    ELSE InsertSorted(SortByConfidence(SubSeq(fs, 1, Len(fs) - 1)),
                      fs[Len(fs)])

RECURSIVE DetectFrom(_, _, _)
DetectFrom(text, cfg, n) ==
    IF n > Len(BIAS_PATTERNS) THEN <<>>
    ELSE LET pat     == BIAS_PATTERNS[n]
             matches == Matches(text, 1, pat)
             rest    == DetectFrom(text, cfg, n + 1)
         IN  IF ~IsActive(pat, cfg.biasDetectionLevel) \/ matches = <<>>
             THEN rest
             ELSE << [ pattern         |-> pat.name,
                       type            |-> pat.type,
                       severity        |-> pat.severity,
                       regulation_risk |-> pat.regulation_risk,
                       matches         |-> matches,
                       confidence      |->
                           Min(AdjustConfidence(
                                   calculateConfidence(matches, text, pat.type),
                                   pat.severity, cfg.mode),
                               Milli) ] >> \o rest

detectBiasPatterns(text, cfg) ==
    SortByConfidence(DetectFrom(sanitizeInput(text), cfg, 1))

severityMultiplier(mode, severity) ==
    IF mode = "Hackathon"
    THEN CASE severity = "low" -> 2 [] severity = "medium" -> 8
           [] severity = "high" -> 20 [] severity = "critical" -> 35
    ELSE CASE severity = "low" -> 3 [] severity = "medium" -> 10
           [] severity = "high" -> 25 [] severity = "critical" -> 45

regulationPenalty(mode) ==
    IF mode = "Hackathon"
    THEN [euAiAct |-> 15, section508 |-> 12, gdpr |-> 18]
    ELSE [euAiAct |-> 25, section508 |-> 20, gdpr |-> 30]

euAiActRegulations == {"EU_AI_ACT"}

section508Regulations ==
    {"SECTION_508", "ADA", "REHABILITATION_ACT", "EU_ACCESSIBILITY_ACT"}

gdprRegulations == {"GDPR", "FAIR_HOUSING_ACT", "CIVIL_RIGHTS_ACT"}

hasRegulationRisk(regulations, targetRegulations) ==
    targetRegulations \cap regulations # {}

\* Math.max(0, x)
Max0_none(x) == x

Max0(x) == IF x < 0 THEN 0 ELSE x

RECURSIVE totalDeductions(_, _)
totalDeductions(biasPatterns, mode) ==
    IF biasPatterns = <<>> THEN 0
    ELSE severityMultiplier(mode, Head(biasPatterns).severity)
             * Head(biasPatterns).confidence
         + totalDeductions(Tail(biasPatterns), mode)

calculateComplianceScore(biasPatterns, cfg) ==
    LET regulations ==
            UNION {biasPatterns[i].regulation_risk :
                     i \in 1..Len(biasPatterns)}
        baseScore  == Max0(100 * Milli - totalDeductions(biasPatterns, cfg.mode))
        penalty    == regulationPenalty(cfg.mode)
        euAiAct    == IF hasRegulationRisk(regulations, euAiActRegulations)
                      THEN Max0(baseScore - penalty.euAiAct * Milli)
                      ELSE baseScore
        section508 == IF hasRegulationRisk(regulations, section508Regulations)
                      THEN Max0(baseScore - penalty.section508 * Milli)
                      ELSE baseScore
        gdpr       == IF hasRegulationRisk(regulations, gdprRegulations)
                      THEN Max0(baseScore - penalty.gdpr * Milli)
                      ELSE baseScore
        overallScore == Min(euAiAct, Min(section508, gdpr))
        thresholds == cfg.complianceThresholds
    IN  [ euAiAct      |-> euAiAct,
          section508   |-> section508,
          gdpr         |-> gdpr,
          riskLevel    |->
              IF overallScore < thresholds.critical * Milli THEN "critical"
              ELSE IF overallScore < thresholds.high * Milli THEN "high"
              ELSE IF overallScore < thresholds.medium * Milli THEN "medium"
              ELSE "low",
          overallScore |-> overallScore,
          regulations_triggered |-> regulations ]

\* ---- analysing one text under several configurations ----
MaxWords == 3
MaxRuns  == 2

Modes  == {"Hackathon", "Production"}
Levels == {"strict", "moderate", "lenient"}

\* the configuration configure_environment builds for a mode and an optional
\* biasDetectionLevel override
ConfigWith(mode, level) ==
    [ConfigOf(mode) EXCEPT !.biasDetectionLevel = level]

ScenarioA ==
    << "we", "'", "re", "looking", "for", "young", ",", "energetic", "guys",
       ".", ".", ".", "native", "english", "speakers", "preferred", "." >>

ScenarioB ==
    << "our", "team", "is", "looking", "for", "qualified", ",",
       "experienced", "engineers", "." >>

DetWords ==
    { "guys", "young", "urban", "team", "rockstar", "developer", "perfect",
      "vision", "," }

Texts ==
    {ScenarioA, ScenarioB}
        \cup UNION {[1..n -> DetWords] : n \in 0..MaxWords}

NotRun == [done |-> FALSE, findings |-> <<>>, score |-> [overallScore |-> 0]]

InitDet(texts) ==
    /\ detText \in texts
    /\ detRuns = [c \in Modes \X Levels |-> NotRun]
    /\ scoreList = <<>>
    /\ scoreOut = NotRun.score
    /\ scorePrev = 0

\* EnhancedBiasDetector.setConfig(config); detectBiasPatterns(text);
\* calculateComplianceScore(findings)
DetAnalyze(mode, level) ==
    LET cfg      == ConfigWith(mode, level)
        findings == detectBiasPatterns(detText, cfg)
    IN  /\ ~detRuns[<<mode, level>>].done
        /\ Cardinality({c \in Modes \X Levels : detRuns[c].done}) < MaxRuns
        /\ detectorConfig' = cfg
        /\ detRuns' = [detRuns EXCEPT ![<<mode, level>>] =
                         [ done     |-> TRUE,
                           findings |-> findings,
                           score    |-> calculateComplianceScore(findings, cfg) ]]
        /\ UNCHANGED <<now, cbVars, cacheVars, serverConfig, qlooClient,
                       clients, analyses, batch, faults, rlVars, auditVars,
                       detText, scoreList, scoreOut, scorePrev, repVars,
                   callVars>>

NextDetector == \E mode \in Modes, level \in Levels : DetAnalyze(mode, level)

\* ---- scoring a growing list of findings under one configuration ----
MaxFindings == 3

Severities == {"low", "medium", "high", "critical"}

FindingPool ==
    { [severity |-> s, confidence |-> c, regulation_risk |-> r] :
        s \in Severities, c \in {0, Milli \div 2, Milli},
        r \in {{}, {"EU_AI_ACT"}, {"ADA"}, {"GDPR"}} }

\* setConfig(config), then the score of no findings
ScoreStart(mode) ==
    /\ detectorConfig' = ConfigOf(mode)
    /\ scoreList' = <<>>
    /\ scoreOut' = calculateComplianceScore(<<>>, ConfigOf(mode))
    /\ scorePrev' = 0
    /\ UNCHANGED <<now, cbVars, cacheVars, serverConfig, qlooClient,
                   clients, analyses, batch, faults, rlVars, auditVars,
                   detText, detRuns, repVars, callVars>>

\* calculateComplianceScore on the list with one more finding at position p
ScoreAdd(f, p) ==
    /\ scoreOut # NotRun.score
    /\ Len(scoreList) < MaxFindings
    /\ p \in 1..(Len(scoreList) + 1)
    /\ scoreList' = SubSeq(scoreList, 1, p - 1) \o <<f>>
                        \o SubSeq(scoreList, p, Len(scoreList))
    /\ scoreOut' = calculateComplianceScore(scoreList', detectorConfig)
    /\ scorePrev' = scoreOut.overallScore
    /\ UNCHANGED <<now, cbVars, cacheVars, clientVars, rlVars, auditVars,
                   detText, detRuns, repVars, callVars>>

NextScore ==
    \/ \E mode \in Modes : ScoreStart(mode)
    \/ \E f \in FindingPool, p \in 1..MaxFindings : ScoreAdd(f, p)

\* ------------------------------------------------------------------------
\* Compliance reporting (EnhancedQlooClient.generateComplianceReport and
\* generateTrends, src/src/mcp/server.ts).  Time is in ticks of half a day;
\* local midnight falls on the even ticks, and a calendar date is the number
\* of its day.  Scores are in thousandths of a point, rounded averages in
\* hundredths.  The report's topIssues and recommendations are left out.
\* ------------------------------------------------------------------------
\* 24 * 60 * 60 * 1000 ms
DayTicks == 2

ScenarioAge  == 10
ScenarioDays == 7

ReportDays == {1, 3, ScenarioDays}

RepMaxTime == (ScenarioAge + 1) * DayTicks

\* the complianceScore of earlier analyses, as far as the report reads it
ScoreKinds ==
    { [overallScore |-> 100 * Milli, riskLevel |-> "low"],
      [overallScore |-> 44200, riskLevel |-> "medium"],
      [overallScore |-> 20 * Milli, riskLevel |-> "high"] }

NoReport == [done |-> FALSE, days |-> 0, report |-> <<>>]

InitReport ==
    /\ repLog = <<>>
    /\ repOut = NoReport

\* Math.round(x * 100) / 100 of the quotient sum / n, in hundredths
Round2(sum, n) == (2 * sum + 10 * n) \div (20 * n)

RECURSIVE SumScores(_)
SumScores(trails) ==
    IF trails = <<>> THEN 0
    ELSE Head(trails).complianceScore.overallScore + SumScores(Tail(trails))

\* the filter of generateComplianceReport
recentTrails_all(trails, t, daysBack) == trails

recentTrails(trails, t, daysBack) ==
    LET cutoffDate == t - daysBack * DayTicks
    IN  SelectSeq(trails, LAMBDA trail : trail.timestamp > cutoffDate)

\* new Date(date.getFullYear(), date.getMonth(), date.getDate())
DayStart(t) == t - (t % DayTicks)

generateTrends(trails, t, days) ==
    [k \in 1..days |->
        LET i         == days - k
            dayStart  == DayStart(t - i * DayTicks)
            dayEnd    == dayStart + DayTicks
            dayTrails == SelectSeq(trails,
                             LAMBDA tr : /\ tr.timestamp >= dayStart
                                         /\ tr.timestamp < dayEnd)
        IN  [ date          |-> dayStart \div DayTicks,
              averageScore  |->
                  IF Len(dayTrails) > 0
                  THEN Round2(SumScores(dayTrails), Len(dayTrails))
                  ELSE 0,
              highRiskCount |->
                  Cardinality({j \in 1..Len(dayTrails) :
                      dayTrails[j].complianceScore.riskLevel
                          \in {"high", "critical"}}) ]]

generateComplianceReport(trails, t, daysBack) ==
    LET recent == recentTrails(trails, t, daysBack)
    IN  [ days           |-> daysBack,
          totalAnalyses  |-> Len(recent),
          averageComplianceScore |->
              IF Len(recent) > 0 THEN Round2(SumScores(recent), Len(recent))
              ELSE 0,
          riskDistribution |->
              [r \in {recent[j].complianceScore.riskLevel : j \in 1..Len(recent)}
                 |-> Cardinality({j \in 1..Len(recent) :
                         recent[j].complianceScore.riskLevel = r})],
          trendsOverTime |-> generateTrends(recent, t, daysBack) ]

\* an analysis completes: addAuditTrail with timestamp new Date()
RepAppend(score) ==
    /\ repLog' = auditTrails_push(repLog,
                                  [timestamp |-> now, complianceScore |-> score],
                                  MaxAuditTrails)
    /\ repOut' = NoReport
    /\ UNCHANGED <<now, cbVars, cacheVars, clientVars, rlVars, auditVars,
                   detVars, callVars>>

\* generateComplianceReport(daysBack); repOut is the report just returned
RepReport(daysBack) ==
    /\ repOut' = [ done   |-> TRUE,
                   days   |-> daysBack,
                   report |-> generateComplianceReport(repLog, now, daysBack) ]
    /\ UNCHANGED <<now, cbVars, cacheVars, clientVars, rlVars, auditVars,
                   detVars, repLog, callVars>>

RepTick ==
    /\ now < RepMaxTime
    /\ now' = now + 1
    /\ repOut' = NoReport
    /\ UNCHANGED <<cbVars, cacheVars, clientVars, rlVars, auditVars, detVars,
                   repLog, callVars>>

NextReport ==
    \/ \E score \in ScoreKinds : RepAppend(score)
    \/ \E daysBack \in ReportDays : RepReport(daysBack)
    \/ RepTick

\* ------------------------------------------------------------------------
\* The detector as its callers see it: any number of setConfig calls, then
\* detectBiasPatterns and calculateComplianceScore.  The class exists twice,
\* with the same rules and arithmetic: in src/src/mcp/server.ts its static
\* config starts as DEFAULT_HACKATHON_CONFIG, in src/src/bias-detector.ts it
\* is declared without a value.
\* ------------------------------------------------------------------------
DetModules == {"server", "bias-detector"}

\* the static field config after class initialization: <<c>> for the
\* configuration c, <<>> for undefined
InitialConfig(module) ==
    IF module = "server" THEN <<DEFAULT_HACKATHON_CONFIG>> ELSE <<>>

\* the example text of the readme's test
GuysText == << "looking", "for", "guys", "to", "join", "our", "team" >>

NoCall == [done |-> FALSE, threw |-> FALSE, findings |-> <<>>,
           score |-> [overallScore |-> 0]]

InitCalls(texts) ==
    /\ detModule \in DetModules
    /\ detCfg = InitialConfig(detModule)
    /\ detConfigured = FALSE
    /\ detOut = NoCall
    /\ detText \in texts

\* EnhancedBiasDetector.setConfig(config)
SetConfig(mode, level) ==
    /\ detCfg' = <<ConfigWith(mode, level)>>
    /\ detConfigured' = TRUE
    /\ detOut' = NoCall
    /\ UNCHANGED <<now, cbVars, cacheVars, clientVars, rlVars, auditVars,
                   detVars, repVars, detModule>>

\* detectBiasPatterns(text), then calculateComplianceScore on its result.
\* Reading this.config.biasDetectionLevel of an undefined config throws a
\* TypeError.
Detect ==
    /\ ~detOut.done
    /\ detOut' =
          IF Len(detCfg) = 0
          THEN [NoCall EXCEPT !.done = TRUE, !.threw = TRUE]
          ELSE LET findings == detectBiasPatterns(detText, detCfg[1])
               IN  [ done     |-> TRUE,
                     threw    |-> FALSE,
                     findings |-> findings,
                     score    |-> calculateComplianceScore(findings, detCfg[1]) ]
    /\ UNCHANGED <<now, cbVars, cacheVars, clientVars, rlVars, auditVars,
                   detVars, repVars, detModule, detCfg, detConfigured>>

\* the detector of server.ts, not called
InitCallsIdle ==
    /\ detModule = "server"
    /\ detCfg = InitialConfig(detModule)
    /\ detConfigured = FALSE
    /\ detOut = NoCall

NextCalls ==
    \/ \E mode \in Modes, level \in Levels : SetConfig(mode, level)
    \/ Detect

\* ------------------------------------------------------------------------
\* Specifications.  Each explores one component; the others stay as constructed.
\* ------------------------------------------------------------------------
InitSpecCB ==
    /\ now = 1
    /\ InitCB(1..MaxThreshold)
    /\ InitCache({1})
    /\ InitClient({"Hackathon"})
    /\ InitRL
    /\ InitAudit({MaxAuditTrails})
    /\ InitDet({<<>>})
    /\ InitReport
    /\ InitCallsIdle

InitSpecCache ==
    /\ now = 1
    /\ InitCB({1})
    /\ InitCache(1..MaxCacheSize)
    /\ InitClient({"Hackathon"})
    /\ InitRL
    /\ InitAudit({MaxAuditTrails})
    /\ InitDet({<<>>})
    /\ InitReport
    /\ InitCallsIdle

InitSpecClient ==
    /\ now = 1
    /\ InitCB({1})
    /\ InitCache({1})
    /\ InitClient({"Hackathon"})
    /\ InitRL
    /\ InitAudit({MaxAuditTrails})
    /\ InitDet({<<>>})
    /\ InitReport
    /\ InitCallsIdle

InitSpecRL ==
    /\ now = 1
    /\ InitCB({1})
    /\ InitCache({1})
    /\ InitClient({"Hackathon"})
    /\ InitRL
    /\ InitAudit({MaxAuditTrails})
    /\ InitDet({<<>>})
    /\ InitReport
    /\ InitCallsIdle

InitSpecAudit ==
    /\ now = 1
    /\ InitCB({1})
    /\ InitCache({1})
    /\ InitClient({"Hackathon"})
    /\ InitRL
    /\ InitAudit(0..MaxAuditTrails)
    /\ InitDet({<<>>})
    /\ InitReport
    /\ InitCallsIdle

InitSpecDetector ==
    /\ now = 1
    /\ InitCB({1})
    /\ InitCache({1})
    /\ InitClient({"Hackathon"})
    /\ InitRL
    /\ InitAudit({MaxAuditTrails})
    /\ InitDet(Texts)
    /\ InitReport
    /\ InitCallsIdle

InitSpecScore ==
    /\ now = 1
    /\ InitCB({1})
    /\ InitCache({1})
    /\ InitClient({"Hackathon"})
    /\ InitRL
    /\ InitAudit({MaxAuditTrails})
    /\ InitDet({<<>>})
    /\ InitReport
    /\ InitCallsIdle

InitSpecReport ==
    /\ now = 1
    /\ InitCB({1})
    /\ InitCache({1})
    /\ InitClient({"Hackathon"})
    /\ InitRL
    /\ InitAudit({MaxAuditTrails})
    /\ InitDet({<<>>})
    /\ InitReport
    /\ InitCallsIdle

InitSpecCalls ==
    /\ now = 1
    /\ InitCB({1})
    /\ InitCache({1})
    /\ InitClient({"Hackathon"})
    /\ InitRL
    /\ InitAudit({MaxAuditTrails})
    /\ detRuns = [c \in Modes \X Levels |-> NotRun]
    /\ scoreList = <<>>
    /\ scoreOut = NotRun.score
    /\ scorePrev = 0
    /\ InitReport
    /\ InitCalls(Texts \cup {GuysText})

SpecCB     == InitSpecCB /\ [][NextCB]_vars
SpecCache  == InitSpecCache /\ [][NextCache]_vars
SpecClient == InitSpecClient /\ [][NextClient]_vars
SpecRL     == InitSpecRL /\ [][NextRL]_vars
SpecAudit  == InitSpecAudit /\ [][NextAudit]_vars
SpecDetector == InitSpecDetector /\ [][NextDetector]_vars
SpecScore  == InitSpecScore /\ [][NextScore]_vars
SpecReport == InitSpecReport /\ [][NextReport]_vars
SpecCalls  == InitSpecCalls /\ [][NextCalls]_vars
SpecPair   == InitSpecClient /\ [][NextPair]_vars
SpecLong   == InitSpecClient /\ [][NextLong]_vars

\* ========================================================================
\* Properties
\* ========================================================================

\* C1: while the breaker is closed its failure count is the number of
\* operations that failed since the last success: a failure adds one, a
\* success resets it to 0, and the breaker is open after the step exactly
\* when that number has reached the threshold (below it, it stays closed).
C1_ClosedOpensAtThreshold ==
    [][cb.state = "closed" =>
         /\ cb'.failures = consecFail'
         /\ (cb'.state = "open") <=> (consecFail' >= cb.threshold)
         /\ cb'.state \in {"closed", "open"}]_vars

C1_Witness ==
    /\ cb.state = "open"
    /\ cb.threshold = MaxThreshold
    /\ consecFail = cb.threshold
    /\ reopenedAt = {}

\* C2: an execute() call made while the breaker is open and at most
\* `timeout` has passed since the last failure is rejected with the
\* breaker-open error, does not start the operation, and leaves the
\* breaker's fields as they were.
C2_OpenFailsFast ==
    [][\A c \in Calls :
         (CBExecute(c) /\ cb.state = "open"
                       /\ now - cb.lastFailureTime <= cb.timeout)
         => (cbCalls'[c] = "open_error" /\ cb' = cb)]_vars

C2_Witness ==
    /\ cb.state = "open"
    /\ now - cb.lastFailureTime = cb.timeout
    /\ \E c \in Calls : cbCalls[c] = "open_error"

\* C3: an execute() call made on an open breaker after the timeout has
\* elapsed puts it in half-open and starts the operation; a half-open
\* breaker becomes closed exactly at the completion of the third success
\* since half-open was entered (so it is still half-open after one), and
\* closing resets the failure count to 0.
C3_RecoveryPath ==
    [][/\ \A c \in Calls :
            (CBExecute(c) /\ cb.state = "open"
                          /\ now - cb.lastFailureTime > cb.timeout)
            => (cb'.state = "half-open" /\ cbCalls'[c] = "running")
       /\ cb.state = "half-open" =>
            /\ (cb'.state = "closed")
                 <=> ((\E c \in Calls : CBFnResolves(c)) /\ hoSucc' = 3)
            /\ (cb'.state = "closed" => cb'.failures = 0)]_vars

C3_Witness ==
    /\ cb.state = "closed"
    /\ hoSucc = 3
    /\ cb.failures = 0

\* C4: a failure in half-open reopens the breaker at once, whatever the
\* number of half-open successes before it, and from then until the
\* timeout has elapsed again every execute() call fails fast.
C4_HalfOpenFailureReopens ==
    [][\A c \in Calls :
         /\ (CBFnRejects(c) /\ cb.state = "half-open") => cb'.state = "open"
         /\ (CBExecute(c) /\ \E t \in reopenedAt : now - t <= cb.timeout)
            => cbCalls'[c] = "open_error"]_vars

\* C9: the cache never holds more than maxSize entries, and after
\* maxSize + k distinct keys were inserted by set() alone it holds exactly
\* the maxSize keys inserted last (the k oldest are absent).
C9_CacheBound ==
    /\ Len(cache) <= cacheMax
    /\ (insRun.ok /\ Len(insRun.keys) > cacheMax) =>
          /\ Len(cache) = cacheMax
          /\ KeysOf(cache) = {insRun.keys[i] :
                                i \in (Len(insRun.keys) - cacheMax + 1)..Len(insRun.keys)}

C9_Witness ==
    /\ cacheMax >= 2
    /\ insRun.ok
    /\ Len(insRun.keys) = cacheMax + 2
    /\ Len(cache) = cacheMax

\* the key of s with the earliest stamp in field f (s is not empty)
Earliest(s, st, f) ==
    CHOOSE k \in KeysOf(s) : \A j \in KeysOf(s) : st[k][f] <= st[j][f]

\* C10 (as stated): the entry a set() evicts is the one that was added to
\* the cache earliest among those present, whatever get() calls were made.
C10_EvictsOldestInserted ==
    [][(cacheOps' # cacheOps /\ lastOp'.op = "set" /\ lastEvicted' # <<>>)
         => lastEvicted' = <<Earliest(cache, stamps, "ins")>>]_vars

\* C10 (amended): the entry a set() evicts is the least recently used one:
\* the one whose last successful get(), or whose addition to the cache if
\* it was never read since, is the earliest among those present.
C10_EvictsLeastRecentlyUsed ==
    [][(cacheOps' # cacheOps /\ lastOp'.op = "set" /\ lastEvicted' # <<>>)
         => lastEvicted' = <<Earliest(cache, stamps, "use")>>]_vars

\* a set() has just evicted a key other than the oldest-inserted one,
\* because the oldest-inserted one was read in between
C10_Witness ==
    /\ lastOp.op = "set"
    /\ Len(lastEvicted) = 1
    /\ \E k \in KeysOf(cache) :
          /\ stamps[k].ins < stamps[k].use
          /\ \A j \in KeysOf(cache) : stamps[k].ins <= stamps[j].ins

\* C11: get(key) on a present entry whose age since the set() that stored it
\* exceeds the TTL removes the entry and returns a miss; on an entry of age
\* <= TTL it returns the stored value and keeps the entry.  Age is measured
\* from that set(), whatever successful get() calls happened since.
C11_TTLFromInsertion ==
    [][\A k \in Keys :
         (CacheGet(k) /\ stamps[k] # Absent) =>
            IF now - stamps[k].at > CacheTTL
            THEN lastOp'.value = Null /\ ~Has(cache', k)
            ELSE lastOp'.value = stamps[k].val /\ Has(cache', k)]_vars

\* a get() has just missed on an entry that had expired although it had been
\* read successfully since it was stored
C11_Witness ==
    /\ lastOp.op = "get"
    /\ lastOp.value = Null
    /\ lastOp.was # Absent
    /\ lastOp.was.use > lastOp.was.ins
    /\ ~Has(cache, lastOp.key)

\* ------------------------------------------------------------------------
\* Properties of the rate limiter (SpecRL)
\* ------------------------------------------------------------------------
\* C12: in any refill interval at most RateLimit removeTokens(1) calls complete,
\* callers suspended in the previous interval that resume at its boundary
\* being counted in the interval that begins there.
C12_AdmissionBound == rlWinCount <= RateLimit

\* ------------------------------------------------------------------------
\* Properties of the audit log (SpecAudit)
\* ------------------------------------------------------------------------
\* the log after an append: the old log plus the new record, cut down to its
\* last `maximum` records
BoundedAppend(old, new, maximum) ==
    /\ Len(new) <= maximum
    /\ Len(new) >= 1 =>
          /\ new[Len(new)].sessionId = auditSeq + 1
          /\ \E d \in 0..Len(old) :
                /\ Len(new) = Len(old) - d + 1
                /\ \A n \in 1..(Len(new) - 1) : new[n] = old[d + n]
                /\ d > 0 => Len(new) = maximum

\* C14: the audit log is append-only and bounded: after every append its
\* length is <= the configured maximum, the records dropped are the oldest
\* ones, and the retained records keep their content and relative order.
C14_AuditLogBounded ==
    [][auditSeq' # auditSeq => BoundedAppend(auditLog, auditLog', auditMax)]_vars

\* the same, for a configured maximum of at least 1
AuditLogBoundedPositiveMax ==
    [][(auditSeq' # auditSeq /\ auditMax >= 1)
          => BoundedAppend(auditLog, auditLog', auditMax)]_vars

\* ------------------------------------------------------------------------
\* Properties of the client (SpecClient)
\* ------------------------------------------------------------------------
ClientIds == 1..Len(clients)

\* C5: a failing external call made through the client is registered by the
\* client's circuit breaker as a failure, so that once `threshold` consecutive
\* external calls have failed the breaker is open.
C5_FailingCallsOpenBreaker ==
    \A i \in ClientIds :
        clients[i].apiConsecFail >= clients[i].circuitBreaker.threshold
            => clients[i].circuitBreaker.state = "open"

Final == {"returned", "threw"}

\* C13: every entity held in an entry of the entity cache or of the
\* demographic cache of a client carries only allow-listed properties.
C13_CachedEntitiesSanitized ==
    \A i \in ClientIds :
        /\ \A n \in 1..Len(clients[i].entityCache) :
              LET v == clients[i].entityCache[n].value
              IN  \A m \in 1..Len(v) : v[m].props \subseteq SafeProperties
        /\ \A n \in 1..Len(clients[i].demographicCache) :
              LET v == clients[i].demographicCache[n].value.entities
              IN  \A m \in 1..Len(v) : v[m].props \subseteq SafeProperties

\* C6: every analyzeContent call that has returned or thrown has appended
\* exactly one audit record, to the log of the client it ran on and to no other,
\* and a call that has not finished has appended none; on the success path and
\* on the error path, whatever other analyses ran in between.
C6_OneAuditRecordPerCall ==
    \A a \in AIds : \A i \in ClientIds :
        clients[i].appended[a] =
            IF analyses[a].pc \in Final /\ analyses[a].client = i THEN 1 ELSE 0

C6_Witness ==
    \E a, b \in AIds :
        /\ a # b
        /\ analyses[a].client = analyses[b].client
        /\ analyses[a].pc = "threw" /\ Len(analyses[a].look) > 0
        /\ analyses[b].pc = "returned" /\ Len(analyses[b].look) > 0
        /\ clients[analyses[a].client].appended[a] = 1
        /\ clients[analyses[b].client].appended[b] = 1

C8_ConfigSwitchAtomic ==
    \A a \in AIds :
        analyses[a].detCfg # "none"
            => analyses[a].detCfg = clients[analyses[a].client].config.mode

\* ------------------------------------------------------------------------
\* Properties of the bias detector and the compliance scorer
\* ------------------------------------------------------------------------
Run(mode, level) == detRuns[<<mode, level>>]

\* some finding of the given category lists the word among its matches
HasFinding(findings, type, word) ==
    \E i \in 1..Len(findings) :
        /\ findings[i].type = type
        /\ \E j \in 1..Len(findings[i].matches) :
               findings[i].matches[j] = <<word>>

\* C15 (Scenario A): under the Production configuration with strict
\* detection, the analysis of "We're looking for young, energetic guys...
\* Native English speakers preferred." has an age_discriminatory finding
\* matching "young" and a gender_exclusive finding matching "guys", an
\* overall score below 50, and a risk tier that is high or critical.
C15_ScenarioA ==
    (detText = ScenarioA /\ Run("Production", "strict").done) =>
        LET r == Run("Production", "strict")
        IN  /\ HasFinding(r.findings, "age_discriminatory", "young")
            /\ HasFinding(r.findings, "gender_exclusive", "guys")
            /\ r.score.overallScore < 50 * Milli
            /\ r.score.riskLevel \in {"high", "critical"}

\* Scenario A without the risk tier: the two findings and the score below 50
ScenarioAFindingsAndScore ==
    (detText = ScenarioA /\ Run("Production", "strict").done) =>
        LET r == Run("Production", "strict")
        IN  /\ HasFinding(r.findings, "age_discriminatory", "young")
            /\ HasFinding(r.findings, "gender_exclusive", "guys")
            /\ r.score.overallScore < 50 * Milli

\* C16 (score monotonicity): under a fixed configuration, adding a finding
\* with confidence in [0,1] to a list of findings never increases
\* overallScore, and each of the three regulation scores is within 0..100.
C16_ScoreMonotone ==
    [][(Len(scoreList') = Len(scoreList) + 1
            /\ detectorConfig' = detectorConfig) =>
          /\ scoreOut'.overallScore <= scoreOut.overallScore
          /\ scoreOut'.euAiAct \in 0..(100 * Milli)
          /\ scoreOut'.section508 \in 0..(100 * Milli)
          /\ scoreOut'.gdpr \in 0..(100 * Milli)]_vars

\* a finding was added to a non-empty list and lowered the overall score,
\* which is still above 0
C16_Witness ==
    /\ Len(scoreList) >= 2
    /\ scoreOut.overallScore < scorePrev
    /\ scoreOut.overallScore > 0

\* a rule active at the level matches somewhere in the sanitized text
Triggers(text, level) ==
    \E n \in 1..Len(BIAS_PATTERNS), i \in 1..Len(text) :
        /\ level \in BIAS_PATTERNS[n].detectionLevel
        /\ MatchLenAt(sanitizeInput(text), i, BIAS_PATTERNS[n]) > 0

PerfectScore ==
    [ euAiAct |-> 100 * Milli, section508 |-> 100 * Milli,
      gdpr |-> 100 * Milli, riskLevel |-> "low",
      overallScore |-> 100 * Milli, regulations_triggered |-> {} ]

\* C17 (empty results): under every configuration, detectBiasPatterns on
\* the empty string or on a text that matches no active rule returns the
\* empty list, and calculateComplianceScore([]) is overall 100, all three
\* regulation scores 100, risk tier low and no triggered regulations.
C17_EmptyResults ==
    \A c \in Modes \X Levels :
        detRuns[c].done =>
            /\ (detText = <<>> \/ ~Triggers(detText, c[2]))
                   => detRuns[c].findings = <<>>
            /\ detRuns[c].findings = <<>> => detRuns[c].score = PerfectScore

\* a non-empty text with a trigger word of an inactive rule was analysed
\* and gave no findings and the perfect score
C17_Witness ==
    \E c \in Modes \X Levels :
        /\ detRuns[c].done
        /\ detText # <<>>
        /\ Triggers(detText, "strict")
        /\ ~Triggers(detText, c[2])
        /\ detRuns[c].findings = <<>>
        /\ detRuns[c].score = PerfectScore

\* C18 (Scenario C): for every text that triggers at least one finding, the
\* overall score under the Production configuration is at most the overall
\* score of the same text under the Hackathon configuration.
C18_ProductionStricter ==
    LET h == Run("Hackathon", DEFAULT_HACKATHON_CONFIG.biasDetectionLevel)
        p == Run("Production", DEFAULT_PRODUCTION_CONFIG.biasDetectionLevel)
    IN  (h.done /\ p.done /\ (h.findings # <<>> \/ p.findings # <<>>)) =>
            p.score.overallScore <= h.score.overallScore

\* a text with findings under both configurations, scored strictly lower
\* under Production
C18_Witness ==
    LET h == Run("Hackathon", DEFAULT_HACKATHON_CONFIG.biasDetectionLevel)
        p == Run("Production", DEFAULT_PRODUCTION_CONFIG.biasDetectionLevel)
    IN  /\ h.done /\ p.done
        /\ h.findings # <<>> /\ p.findings # <<>>
        /\ p.score.overallScore < h.score.overallScore

\* ------------------------------------------------------------------------
\* Properties of the compliance report
\* ------------------------------------------------------------------------
\* the records of the log that are less than d days old
InWindow(d) ==
    {i \in 1..Len(repLog) : now - repLog[i].timestamp < d * DayTicks}

\* the log is not empty and all its records are from 10 days ago
OnlyOldRecords ==
    /\ repLog # <<>>
    /\ \A i \in 1..Len(repLog) :
           /\ now - repLog[i].timestamp >= ScenarioAge * DayTicks
           /\ now - repLog[i].timestamp < (ScenarioAge + 1) * DayTicks

\* C19 (Scenario D, report window): generateComplianceReport(d) counts only
\* the records whose timestamp lies within the last d days; when the log
\* holds only records from 10 days ago, generateComplianceReport(7) reports
\* totalAnalyses 0 and average score 0, and its trend list has exactly 7
\* per-day entries, all with averageScore 0 and highRiskCount 0.
C19_ReportWindow ==
    repOut.done =>
        LET r == repOut.report
        IN  /\ r.totalAnalyses = Cardinality(InWindow(repOut.days))
            /\ InWindow(repOut.days) = {} => r.averageComplianceScore = 0
            /\ (repOut.days = ScenarioDays /\ OnlyOldRecords) =>
                   /\ r.totalAnalyses = 0
                   /\ r.averageComplianceScore = 0
                   /\ Len(r.trendsOverTime) = ScenarioDays
                   /\ \A k \in 1..Len(r.trendsOverTime) :
                          /\ r.trendsOverTime[k].averageScore = 0
                          /\ r.trendsOverTime[k].highRiskCount = 0

\* a 7-day report was made on a log holding only 10-day-old records, one of
\* them high-risk
C19_Witness ==
    /\ repOut.done
    /\ repOut.days = ScenarioDays
    /\ OnlyOldRecords
    /\ \E i \in 1..Len(repLog) : repLog[i].complianceScore.riskLevel = "high"
    /\ repOut.report.totalAnalyses = 0

CeilDiv(n, d) == (n + d - 1) \div d

\* C20 (Scenario E, batching): batchCulturalAudit on n requests runs exactly
\* ceil(n/5) dispatch rounds; a round starts only after every analysis of
\* the previous round has settled and the inter-round delay has elapsed, and
\* there is no delay after the last round; it returns n results with
\* results[i].index = i in input order, even when analyses throw.
C20_BatchRounds ==
    /\ batch.pc = "done" =>
           /\ batch.rounds = CeilDiv(Len(batch.reqs), BatchSize)
           /\ Len(batch.results) = Len(batch.reqs)
           /\ \A k \in 1..Len(batch.results) : batch.results[k].index = k - 1
    /\ batch.pc = "delay" => batch.i + BatchSize < Len(batch.reqs)
    /\ (batch.pc = "running" /\ batch.rounds > 1) =>
           /\ now >= batch.wake
           /\ \A k \in 1..batch.i :
                  analyses[BatchId(k)].pc \in {"returned", "threw"}

\* a batch of more than one round has returned, with the result of a
\* request whose analysis threw
C20_Witness ==
    /\ batch.pc = "done"
    /\ batch.rounds = 2
    /\ Len(batch.reqs) > BatchSize
    /\ \E k \in 1..Len(batch.results) : batch.results[k].error

\* C26: the breaker leaves the open state only through half-open: no step
\* of overlapping execute() calls takes it from open to closed, and the late
\* success of an operation started before it opened neither closes it nor
\* resets its failure count.
C26_OpenLeavesViaHalfOpen ==
    [][cb.state = "open" =>
          /\ cb'.state # "closed"
          /\ cb'.failures >= cb.failures]_vars

\* C27: set(k, v) for a key that is already present only replaces the entry
\* of k: the set of keys is the same afterwards, also at capacity.
C27_OverwriteKeepsOtherKeys ==
    [][\A k \in Keys, v \in Values :
          (CacheSet(k, v) /\ Has(cache, k)) =>
              KeysOf(cache') = KeysOf(cache)]_vars

C21_DetectionNeverThrows ==
    detOut.done =>
        /\ ~detOut.threw
        /\ detText = <<>> => detOut.findings = <<>>

\* the detector of server.ts, whose config has an initial value, never throws
ServerDetectorNeverThrows ==
    (detOut.done /\ detModule = "server") =>
        /\ ~detOut.threw
        /\ detText = <<>> => detOut.findings = <<>>

\* C22: with the configuration the detector has by default (no setConfig
\* call made), detectBiasPatterns on a text whose only biased term is "guys"
\* returns exactly one finding, of type gender_exclusive, whose matches
\* contain "guys".
C22_DefaultDetectsGuys ==
    (detOut.done /\ ~detConfigured /\ detModule = "server"
         /\ detText = GuysText) =>
        /\ Len(detOut.findings) = 1
        /\ detOut.findings[1].type = "gender_exclusive"
        /\ \E j \in 1..Len(detOut.findings[1].matches) :
               detOut.findings[1].matches[j] = <<"guys">>

\* the same after setConfig with a strict or moderate detection level
GuysDetectedWhenStrictOrModerate ==
    (detOut.done /\ ~detOut.threw /\ detText = GuysText
         /\ detCfg[1].biasDetectionLevel \in {"strict", "moderate"}) =>
        /\ Len(detOut.findings) = 1
        /\ detOut.findings[1].type = "gender_exclusive"
        /\ \E j \in 1..Len(detOut.findings[1].matches) :
               detOut.findings[1].matches[j] = <<"guys">>

\* the audit record analysis a appended to the log of client c, if any
TrailsOf(c, a) ==
    {i \in 1..Len(clients[c].auditTrails) :
        clients[c].auditTrails[i].sessionId = a}

\* analysis b returned after a lookup round in which no lookup succeeded, it
\* stored the (empty) merged list not more than the TTL ago, and no analysis
\* has stored a round in the entity cache of its client since
FailedRoundWithinTTL(b) ==
    /\ analyses[b].pc = "returned"
    /\ clients[analyses[b].client].lastRound = b
    /\ Len(analyses[b].look) > 0
    /\ \A j \in 1..Len(analyses[b].look) :
          analyses[b].look[j].st \in {"fail", "rejected"}
    /\ \E i \in TrailsOf(analyses[b].client, b) :
          now - clients[analyses[b].client].auditTrails[i].timestamp
              <= ClientCacheTTL

\* C28: a lookup round in which every lookup failed is cached like any other:
\* an analysis of the same candidate set that starts on the same client
\* within the TTL of that round, while the round is the one last stored, is
\* a cache hit (cache-hit count 1), issues no lookup, whatever the API would
\* answer now, and returns no cultural entity.
C28_FailedRoundCached ==
    [][\A a \in 1..MaxPair, b \in 1..MaxPair, ents \in Contents :
         ( /\ AnalyzeContentBias(a, ents, FALSE)
           /\ FailedRoundWithinTTL(b)
           /\ analyses[b].ents = ents
           /\ analyses[b].client = qlooClient )
         => /\ analyses'[a].pc = "returned"
            /\ analyses'[a].cacheHits = 1
            /\ analyses'[a].look = <<>>
            /\ analyses'[a].cultural = <<>>
            /\ clients'[qlooClient].apiCallCount
                  = clients[qlooClient].apiCallCount
            /\ clients'[qlooClient].rateLimiter
                  = clients[qlooClient].rateLimiter
            /\ \E i \in 1..Len(clients'[qlooClient].auditTrails) :
                  /\ clients'[qlooClient].auditTrails[i].sessionId = a
                  /\ clients'[qlooClient].auditTrails[i].cacheHits = 1
                  /\ clients'[qlooClient].auditTrails[i].apiCallsCount = 0
      ]_vars

\* a failed round at the start, the same content analysed again later within
\* the TTL: the second analysis returned from the cache without a lookup
C28_Witness ==
    /\ FailedRoundWithinTTL(1)
    /\ now > clients[1].auditTrails[1].timestamp
    /\ analyses[2].pc = "returned"
    /\ analyses[2].ents = analyses[1].ents
    /\ analyses[2].cacheHits = 1
    /\ analyses[2].look = <<>>
    /\ analyses[2].cultural = <<>>
    /\ analyses[2].sent = 0

\* once the entry of the failed round has expired, the same content is
\* looked up again
FailedRoundExpires ==
    [][\A a \in 1..MaxPair, ents \in Contents :
         ( /\ AnalyzeContentBias(a, ents, FALSE)
           /\ \E b \in 1..MaxPair :
                 /\ analyses[b].pc = "returned"
                 /\ analyses[b].ents = ents
           /\ \A b \in 1..MaxPair : \A i \in TrailsOf(qlooClient, b) :
                 now - clients[qlooClient].auditTrails[i].timestamp
                     > ClientCacheTTL )
         => /\ analyses'[a].pc = "lookup"
            /\ analyses'[a].cacheHits = 0
      ]_vars

\* C29: the apiCallsCount of every audit record is the number of requests
\* the analysis that wrote the record sent itself, also when another analysis
\* ran on the same client in the meantime.
C29_ApiCallsCountOwn ==
    \A c \in ClientIds : \A i \in 1..Len(clients[c].auditTrails) :
        clients[c].auditTrails[i].apiCallsCount
            = analyses[clients[c].auditTrails[i].sessionId].sent

\* the count is right for an analysis during which no other analysis of the
\* client sent a request, and it never falls short of the analysis's own
ApiCallsCountWhenAlone ==
    \A c \in ClientIds : \A i \in 1..Len(clients[c].auditTrails) :
        LET r == clients[c].auditTrails[i]
        IN  /\ r.apiCallsCount >= analyses[r.sessionId].sent
            /\ (\A b \in AIds \ {r.sessionId} :
                    analyses[b].client = c => analyses[b].sent = 0)
               => r.apiCallsCount = analyses[r.sessionId].sent

\* the log generate_compliance_report, get_audit_trail and the system
\* statistics read: the one of the client qlooClient refers to
VisibleTrails == clients[qlooClient].auditTrails

\* C30: a record that any analysis appended, and that the capacity bound has
\* not evicted, is in the log that reporting reads; configure_environment
\* does not take records away from it, neither earlier ones nor those of
\* analyses that were in flight when it ran.
C30_RecordsStayVisible ==
    \A c \in ClientIds : \A i \in 1..Len(clients[c].auditTrails) :
        \/ \E k \in 1..Len(VisibleTrails) :
              VisibleTrails[k] = clients[c].auditTrails[i]
        \/ Len(VisibleTrails) >= MaxAuditTrails

\* as long as the client is not replaced, a visible record leaves the log
\* only by the capacity bound: in a step that appends to a full log, oldest
\* records first
RecordsKeptUntilEvicted ==
    [][qlooClient' = qlooClient =>
         LET old == VisibleTrails
             new == clients'[qlooClient].auditTrails
             Kept(i) == \E k \in 1..Len(new) : new[k] = old[i]
         IN  \A i \in 1..Len(old) :
                \/ Kept(i)
                \/ /\ Len(new) = MaxAuditTrails
                   /\ \A k \in 1..Len(old) : new[Len(new)] # old[k]
                   /\ \A j \in 1..(i - 1) : ~Kept(j)
      ]_vars

\* calls that were handed to axios
External(calls) ==
    {j \in 1..Len(calls) : calls[j].st \in {"inflight", "ok", "fail"}}

\* demographic buckets that were not answered from the demographic cache
Uncached(calls) ==
    {j \in 1..Len(calls) : calls[j].st \notin {"cached_ok", "cached_fail"}}

\* C24: the demographic enrichment of an analysis runs only on a client whose
\* demographicAnalysis flag is enabled and only after at least one cultural
\* entity was obtained; it sends at most 3 requests, at most one for each
\* demographic bucket that the demographic cache did not serve; and whatever
\* happens to these requests, the analysis goes on to return its result.
C24_DemographicEnrichment ==
    /\ [](\A a \in AIds :
            LET an == analyses[a]
            IN  (an.pc = "demo" \/ Len(an.demo) > 0) =>
                  /\ clients[an.client].config.demographicAnalysis
                  /\ Len(an.cultural) > 0
                  /\ Len(an.demo) = Len(Demographics)
                  /\ Cardinality(External(an.demo)) <= 3
                  /\ External(an.demo) \subseteq Uncached(an.demo)
                  /\ an.sent = Cardinality(External(an.look))
                                 + Cardinality(External(an.demo)))
    /\ [][\A a \in AIds :
            analyses[a].pc = "demo" =>
                /\ analyses'[a].pc \in {"demo", "returned"}
                /\ analyses'[a].cultural = analyses[a].cultural
                /\ analyses'[a].pc = "returned" =>
                      \E i \in 1..Len(clients'[analyses[a].client].auditTrails) :
                         LET r == clients'[analyses[a].client].auditTrails[i]
                         IN  r.sessionId = a /\ ~r.error
       ]_vars

\* an analysis returned after a demographic enrichment in which a request
\* failed and another one succeeded
C24_Witness ==
    \E a \in AIds :
        /\ analyses[a].pc = "returned"
        /\ ~analyses[a].fault
        /\ \E j \in 1..Len(analyses[a].demo) : analyses[a].demo[j].st = "fail"
        /\ \E j \in 1..Len(analyses[a].demo) : analyses[a].demo[j].st = "ok"

\* an analysis whose demographic enrichment was served from the cache in part
DemographicsPartlyCached ==
    \E a \in AIds :
        /\ analyses[a].pc = "demo"
        /\ \E j \in 1..Len(analyses[a].demo) :
              analyses[a].demo[j].st \in {"cached_ok", "cached_fail"}
        /\ External(analyses[a].demo) # {}

\* the entity cache of client c holds an entry for key that has not expired
LiveEntry(c, key) ==
    \E i \in 1..Len(clients[c].entityCache) :
        /\ clients[c].entityCache[i].key = key
        /\ now - clients[c].entityCache[i].timestamp <= ClientCacheTTL

\* the tokens of limiter rl once a call at the current time has refilled it
Refilled(rl) ==
    IF now - rl.lastRefill >= rl.interval THEN rl.tokensPerInterval
    ELSE rl.tokens

CallsIn(calls, states) == {j \in 1..Len(calls) : calls[j].st \in states}

\* analysis a starts on content with candidates in this step
Starts(a) ==
    /\ analyses[a].pc = "idle"
    /\ analyses'[a].pc # "idle"
    /\ ~analyses'[a].fault
    /\ Len(analyses'[a].ents) > 0

\* a start that finds a live cache entry sends no lookup and counts one hit,
\* also in its audit record
HitDiscipline(a) ==
    LET c  == analyses'[a].client
        an == analyses'[a]
    IN  (Starts(a) /\ LiveEntry(c, an.ents)) =>
           /\ an.pc \in {"returned", "demo"}
           /\ an.look = <<>>
           /\ an.cacheHits = 1
           /\ clients'[c].apiCallCount = clients[c].apiCallCount
           /\ an.pc = "returned" =>
                 /\ clients'[c].rateLimiter = clients[c].rateLimiter
                 /\ \E i \in 1..Len(clients'[c].auditTrails) :
                       /\ clients'[c].auditTrails[i].sessionId = a
                       /\ clients'[c].auditTrails[i].cacheHits = 1

\* a start that finds no live entry prepares at most 5 lookups; those that
\* go ahead at once have taken one token each, the others are suspended
MissDiscipline(a) ==
    LET c  == analyses'[a].client
        an == analyses'[a]
    IN  (Starts(a) /\ ~LiveEntry(c, an.ents)) =>
           /\ an.pc = "lookup"
           /\ an.cacheHits = 0
           /\ Len(an.look) = Min(Len(an.ents), 5)
           /\ CallsIn(an.look, {"ready", "wait"}) = 1..Len(an.look)
           /\ clients'[c].rateLimiter.tokens
                 = Refilled(clients[c].rateLimiter)
                     - Cardinality(CallsIn(an.look, {"ready"}))
           /\ CallsIn(an.look, {"wait"}) # {} =>
                 clients'[c].rateLimiter.tokens = 0

\* a lookup reaches the circuit breaker only after its removeTokens call has
\* completed, and an analysis never has more than 5 lookups
BreakerAfterLimiter(a) ==
    /\ \A j \in 1..Len(analyses'[a].look) :
          ( /\ analyses'[a].look[j].st \in {"inflight", "rejected"}
            /\ j \in 1..Len(analyses[a].look)
            /\ analyses[a].look[j].st \notin {"inflight", "rejected"} )
          => analyses[a].look[j].st = "ready"
    /\ Len(analyses'[a].look) <= 5

\* a suspended lookup goes ahead only in a step that takes its token
ResumeTakesToken(a) ==
    \A j \in 1..Len(analyses[a].look) :
        ( /\ analyses[a].pc = "lookup"
          /\ analyses[a].look[j].st = "wait"
          /\ analyses'[a].look[j].st = "ready" )
        => clients'[analyses[a].client].rateLimiter.tokens
              = Refilled(clients[analyses[a].client].rateLimiter) - 1

\* C23: analyzeContent sends entity lookups only when the entity cache has
\* no live entry for the key of the candidate set; on a miss there are at
\* most 5 lookups, and each acquires one rate-limiter token before it runs
\* through the circuit breaker; on a hit no lookup is sent and the audit
\* record counts one cache hit.
C23_LookupDiscipline ==
    [][\A a \in AIds :
         /\ HitDiscipline(a)
         /\ MissDiscipline(a)
         /\ BreakerAfterLimiter(a)
         /\ ResumeTakesToken(a)
      ]_vars

\* the same without the token of a lookup that was suspended: lookups only
\* on a miss, at most 5, removeTokens completed before the breaker is
\* entered, a token taken by every lookup that goes ahead at once
LookupDisciplineUnsuspended ==
    [][\A a \in AIds :
         /\ HitDiscipline(a)
         /\ MissDiscipline(a)
         /\ BreakerAfterLimiter(a)
      ]_vars

\* a content with 6 candidates was looked up with 5 lookups, and analysed
\* again from the cache
LongContentLookedUpAndHit ==
    /\ analyses[1].pc = "returned"
    /\ Len(analyses[1].ents) = MaxLookups + 1
    /\ Len(analyses[1].look) = MaxLookups
    /\ analyses[2].pc = "returned"
    /\ analyses[2].cacheHits = 1

\* the round stored last decides: once an overlapping analysis of the same
\* candidate set has stored a successful round after the failed one, a later
\* analysis is a cache hit that returns the entities of that round
LaterRoundReplacesFailedRound ==
    [][\A a \in 1..MaxPair, ents \in Contents :
         ( /\ AnalyzeContentBias(a, ents, FALSE)
           /\ clients[qlooClient].lastRound # 0
           /\ analyses[clients[qlooClient].lastRound].ents = ents
           /\ \E i \in TrailsOf(qlooClient, clients[qlooClient].lastRound) :
                 now - clients[qlooClient].auditTrails[i].timestamp
                     <= ClientCacheTTL )
         => /\ analyses'[a].cacheHits = 1
            /\ analyses'[a].look = <<>>
            /\ Len(analyses'[a].cultural)
                  = Cardinality(External(
                      analyses[clients[qlooClient].lastRound].look)
                      \cap CallsIn(
                      analyses[clients[qlooClient].lastRound].look, {"ok"}))
      ]_vars
====
